---- MODULE Spec2Model ----
(***************************************************************************)
(* The master of PingPals (class UptimeMaster, src/src/index.ts:511-1241)  *)
(* as a state machine: the service table, the agent ("slave") table, the   *)
(* asynchronous operations suspended on an outbound call, and the clock.   *)
(*                                                                         *)
(* Time is in milliseconds, counted from a UTC midnight.  A JavaScript      *)
(* number holds any such count exactly; here a time or a duration is the   *)
(* pair [d, ms] of whole days and milliseconds into the day, so that       *)
(* months of milliseconds stay exact.  JavaScript runs one handler at a    *)
(* time until it reaches an await on real I/O, so every action below is    *)
(* one such run-to-completion segment.                                     *)
(***************************************************************************)
EXTENDS Integers, Sequences, FiniteSets, TLC

VARIABLES
    now,        \* Date.now()
    services,   \* this.services: service id -> ServiceStatus object
    nextId,     \* number of ids handed out by crypto.randomUUID()
    slaves,     \* this.slaves in Map insertion order: <<[id, obj]>>
    heap,       \* SlaveInfo objects: obj -> [lastSeen, services]
    tasks,      \* suspended asynchronous operations (a bag)
    events,     \* alerts dispatched and errors thrown by the last step
    probe       \* recorded inputs and results of the harness specifications

vars == <<now, services, nextId, slaves, heap, tasks, events, probe>>

----------------------------------------------------------------------------
(* Program constants *)

MIN_DOWNTIME_MS == 10000
STALE_RESULT_THRESHOLD == 300000
DAYS_TO_KEEP == 30
\* CONSENSUS_THRESHOLD = 0.75, kept as a percentage
CONSENSUS_THRESHOLD_PCT == 75
\* Date.now() - slave.lastSeen < 60000
ACTIVE_WINDOW_MS == 60000
\* now - info.lastSeen > 300000
EVICT_AFTER_MS == 300000
\* Math.min(3, activeSlaves.length)
TARGET_REPLICAS == 3
DayMs == 24 * 60 * 60 * 1000

----------------------------------------------------------------------------
(* Millisecond counts as [d, ms], 0 <= ms < DayMs, standing for d * DayMs + ms *)

Norm(d, ms) == [d |-> d + (ms \div DayMs), ms |-> ms % DayMs]
Ms(n) == Norm(0, n)
Days(n) == [d |-> n, ms |-> 0]
TAdd(a, b) == Norm(a.d + b.d, a.ms + b.ms)
TSub(a, b) == Norm(a.d - b.d, a.ms - b.ms)
TLt(a, b) == a.d < b.d \/ (a.d = b.d /\ a.ms < b.ms)
TLe(a, b) == a = b \/ TLt(a, b)
TMin(a, b) == IF TLe(a, b) THEN a ELSE b
Zero == Ms(0)
\* 30 * 24 * 60 * 60 * 1000
ThirtyDaysMs == Days(30)

----------------------------------------------------------------------------
(* Sequence helpers (Array.prototype.includes / filter / map) *)

InSeq(x, s) == \E i \in 1..Len(s) : s[i] = x
Without(s, x) == SelectSeq(s, LAMBDA y : y # x)
\* F(x), x being computed once however often F uses it
With(x, F(_)) == CHOOSE r \in {F(v) : v \in {x}} : TRUE

Min2(a, b) == IF a <= b THEN a ELSE b

RECURSIVE SumSeq(_)
SumSeq(s) == IF s = <<>> THEN Zero ELSE TAdd(Head(s), SumSeq(Tail(s)))

----------------------------------------------------------------------------
(* Values *)

NoError == "null"
NoIncident == [start |-> Ms(-1), error |-> {}]
\* an error text is the set of the "slaveId: error" parts that join() strings
\* together; the order of the parts, that of the Map, is not kept
Placeholder == {[slave |-> 0, error |-> "No specific error details available"]}
\* a percentage num / den * 100; 100 is stored by addService
Pct(num, den) == [num |-> num, den |-> den]
Pct100 == Pct(Ms(1), Ms(1))

Event(type, subject, value) == [type |-> type, subject |-> subject, value |-> value]

NewService(t, cfg) ==
    [ present |-> TRUE,
      type |-> cfg.type, name |-> cfg.name, url |-> cfg.url, host |-> cfg.host,
      interval |-> cfg.interval, timeout |-> cfg.timeout,
      createdAt |-> t, lastCheck |-> Zero, lastStatus |-> "UP",
      uptimePercentage |-> Pct100, uptimePercentage30d |-> Pct100,
      assignedSlaves |-> <<>>, currentIncident |-> NoIncident,
      downtimeLog |-> <<>>, slaveResults |-> [a \in {} |-> 0] ]

\* this.services.get(id) finds a service
Present(svcs, id) == id \in DOMAIN svcs /\ svcs[id].present

----------------------------------------------------------------------------
(* ConsensusEngine *)

\* service.slaveResults, a Map slaveId -> {success, timestamp, error}, as a
\* function; service.slaveResults.set(slaveId, {...})
SetResult(results, slaveId, r) ==
    [a \in DOMAIN results \cup {slaveId} |-> IF a = slaveId THEN r ELSE results[a]]

\* a filter that still counts a result of exactly the threshold age
IsFresh_Inclusive(timestamp, t) == TLe(TSub(t, timestamp), Ms(STALE_RESULT_THRESHOLD))

\* (currentTime - result.timestamp) < this.STALE_RESULT_THRESHOLD
IsFresh(timestamp, t) == TLt(TSub(t, timestamp), Ms(STALE_RESULT_THRESHOLD))

\* the slaves whose result passes the filter of calculateServiceStatus
ValidResults(svc, t) ==
    {a \in DOMAIN svc.slaveResults : IsFresh(svc.slaveResults[a].timestamp, t)}

\* a consensus that needs strictly more than the threshold
AtLeastThreshold_Strict(successful, total) ==
    successful * 100 > CONSENSUS_THRESHOLD_PCT * total

AtLeastThreshold(successful, total) ==
    successful * 100 >= CONSENSUS_THRESHOLD_PCT * total

\* a consensus that any fresh failure breaks
calculateServiceStatus_Unanimous(svc, t) ==
    LET validResults == ValidResults(svc, t)
    IN  IF validResults = {} THEN svc.lastStatus
        ELSE IF \A a \in validResults : svc.slaveResults[a].success
             THEN "UP" ELSE "DOWN"

calculateServiceStatus(svc, t) ==
    LET validResults == ValidResults(svc, t)
        totalValidResults == Cardinality(validResults)
        successfulResults == Cardinality({a \in validResults : svc.slaveResults[a].success})
    IN  IF totalValidResults = 0 THEN svc.lastStatus
        ELSE IF AtLeastThreshold(successfulResults, totalValidResults)
             THEN "UP" ELSE "DOWN"

----------------------------------------------------------------------------
(* IncidentTracker *)

\* new Date(timestamp).toISOString().split('T')[0], as a day number
getDateString(timestamp) == timestamp.d

\* cutoffDate.setDate(cutoffDate.getDate() - DAYS_TO_KEEP), process in UTC
pruneOldDowntimeLogs(log, t) ==
    LET cutoffDateStr == getDateString(TSub(t, Days(DAYS_TO_KEEP)))
    IN  SelectSeq(log, LAMBDA l : l.date >= cutoffDateStr)

RECURSIVE SortedInsert(_, _)
SortedInsert(log, entry) ==
    IF log = <<>> THEN <<entry>>
    ELSE IF Head(log).date <= entry.date
         THEN <<Head(log)>> \o SortedInsert(Tail(log), entry)
         ELSE <<entry>> \o log

\* a ledger that gets a new entry for every incident
getDailyDowntime_Appending(log, date) ==
    SortedInsert(log, [date |-> date, downtimeMs |-> Zero, incidents |-> <<>>])

\* the ledger after getDailyDowntime(service, date) made sure the day exists
getDailyDowntime(log, date) ==
    IF \E i \in 1..Len(log) : log[i].date = date THEN log
    ELSE SortedInsert(log, [date |-> date, downtimeMs |-> Zero, incidents |-> <<>>])

\* a ledger whose day holds the downtime of its latest incident only
RecordIncident_Overwriting(log, date, inc, duration) ==
    LET first == CHOOSE i \in 1..Len(log) :
                    /\ log[i].date = date
                    /\ \A j \in 1..(i - 1) : log[j].date # date
    IN  [log EXCEPT ![first] = [@ EXCEPT !.incidents = Append(@, inc),
                                         !.downtimeMs = duration]]

\* dailyLog.incidents.push(...); dailyLog.downtimeMs += downtimeDuration,
\* on the entry that getDailyDowntime's find returns (the first of that date)
RecordIncident(log, date, inc, duration) ==
    LET first == CHOOSE i \in 1..Len(log) :
                    /\ log[i].date = date
                    /\ \A j \in 1..(i - 1) : log[j].date # date
    IN  [log EXCEPT ![first] = [@ EXCEPT !.incidents = Append(@, inc),
                                         !.downtimeMs = TAdd(@, duration)]]

\* percentages that count every entry of the ledger in the 30-day downtime
updateUptimePercentages_Unfiltered(svc, t) ==
    LET thirtyDaysAgo == TSub(t, ThirtyDaysMs)
        totalDowntime == SumSeq([i \in 1..Len(svc.downtimeLog) |->
                                    svc.downtimeLog[i].downtimeMs])
        totalTime == TSub(t, svc.createdAt)
        recent == svc.downtimeLog
        recentDowntime == SumSeq([i \in 1..Len(recent) |-> recent[i].downtimeMs])
        thirtyDayTime == TMin(totalTime, ThirtyDaysMs)
    IN  [svc EXCEPT !.uptimePercentage = Pct(TSub(totalTime, totalDowntime), totalTime),
                    !.uptimePercentage30d = Pct(TSub(thirtyDayTime, recentDowntime), thirtyDayTime)]

updateUptimePercentages(svc, t) ==
    LET thirtyDaysAgo == TSub(t, ThirtyDaysMs)
        totalDowntime == SumSeq([i \in 1..Len(svc.downtimeLog) |->
                                    svc.downtimeLog[i].downtimeMs])
        totalTime == TSub(t, svc.createdAt)
        recent == SelectSeq(svc.downtimeLog, LAMBDA l : TLe(thirtyDaysAgo, Days(l.date)))
        recentDowntime == SumSeq([i \in 1..Len(recent) |-> recent[i].downtimeMs])
        thirtyDayTime == TMin(totalTime, ThirtyDaysMs)
    IN  [svc EXCEPT !.uptimePercentage = Pct(TSub(totalTime, totalDowntime), totalTime),
                    !.uptimePercentage30d = Pct(TSub(thirtyDayTime, recentDowntime), thirtyDayTime)]

getSlaveErrors(svc) ==
    LET failing == {a \in DOMAIN svc.slaveResults :
                       ~svc.slaveResults[a].success /\ svc.slaveResults[a].error # NoError}
        errors == {[slave |-> a, error |-> svc.slaveResults[a].error] : a \in failing}
    IN  IF errors = {} THEN Placeholder ELSE errors

\* a threshold that drops an incident of exactly the minimum
RecordsDowntime_Strict(downtimeDuration) == TLt(Ms(MIN_DOWNTIME_MS), downtimeDuration)

\* a threshold that lets every recovery into the ledger
RecordsDowntime_Lenient(downtimeDuration) == TLe(Zero, downtimeDuration)

\* downtimeDuration >= this.MIN_DOWNTIME_MS
RecordsDowntime(downtimeDuration) == TLe(Ms(MIN_DOWNTIME_MS), downtimeDuration)

\* a recovery that forgets to clear the incident
CloseIncident_Forgetful(svc, newStatus) == [svc EXCEPT !.lastStatus = newStatus]

\* service.currentIncident = null; service.lastStatus = newStatus
CloseIncident(svc, newStatus) ==
    [svc EXCEPT !.currentIncident = NoIncident, !.lastStatus = newStatus]

\* a tracker that dates a new incident from the check before
handleStatusChange_Backdated(id, svc, newStatus, t) ==
    LET currentDate == getDateString(t) IN
    IF newStatus = "DOWN" /\ svc.lastStatus = "UP"
    THEN [ svc |-> [svc EXCEPT !.currentIncident =
                                   [start |-> svc.lastCheck, error |-> getSlaveErrors(svc)],
                               !.lastStatus = newStatus],
           events |-> <<Event("down", id, Zero)>> ]
    ELSE IF newStatus = "UP" /\ svc.lastStatus = "DOWN" /\ svc.currentIncident # NoIncident
    THEN LET downtimeDuration == TSub(t, svc.currentIncident.start) IN
         IF RecordsDowntime(downtimeDuration)
         THEN LET log1 == getDailyDowntime(svc.downtimeLog, currentDate)
                  log2 == RecordIncident(log1, currentDate,
                              [start |-> svc.currentIncident.start, end |-> t,
                               error |-> svc.currentIncident.error],
                              downtimeDuration)
                  log3 == pruneOldDowntimeLogs(log2, t)
                  s1 == updateUptimePercentages([svc EXCEPT !.downtimeLog = log3], t)
              IN  [ svc |-> CloseIncident(s1, newStatus),
                    events |-> <<Event("up", id, downtimeDuration)>> ]
         ELSE [ svc |-> CloseIncident(svc, newStatus), events |-> <<>> ]
    ELSE [ svc |-> [svc EXCEPT !.lastStatus = newStatus], events |-> <<>> ]

\* [svc, events] after handleStatusChange(service, newStatus) at time t
handleStatusChange(id, svc, newStatus, t) ==
    LET currentDate == getDateString(t) IN
    IF newStatus = "DOWN" /\ svc.lastStatus = "UP"
    THEN [ svc |-> [svc EXCEPT !.currentIncident =
                                   [start |-> t, error |-> getSlaveErrors(svc)],
                               !.lastStatus = newStatus],
           events |-> <<Event("down", id, Zero)>> ]
    ELSE IF newStatus = "UP" /\ svc.lastStatus = "DOWN" /\ svc.currentIncident # NoIncident
    THEN LET downtimeDuration == TSub(t, svc.currentIncident.start) IN
         IF RecordsDowntime(downtimeDuration)
         THEN LET log1 == getDailyDowntime(svc.downtimeLog, currentDate)
                  log2 == RecordIncident(log1, currentDate,
                              [start |-> svc.currentIncident.start, end |-> t,
                               error |-> svc.currentIncident.error],
                              downtimeDuration)
                  log3 == pruneOldDowntimeLogs(log2, t)
                  s1 == updateUptimePercentages([svc EXCEPT !.downtimeLog = log3], t)
              IN  [ svc |-> CloseIncident(s1, newStatus),
                    events |-> <<Event("up", id, downtimeDuration)>> ]
         ELSE [ svc |-> CloseIncident(svc, newStatus), events |-> <<>> ]
    ELSE [ svc |-> [svc EXCEPT !.lastStatus = newStatus], events |-> <<>> ]

\* a handler that alerts on every report that finds the service down
ReportEffect_Realerting(id, svc, slaveId, timestamp, success, error, t) ==
    LET s1 == [svc EXCEPT !.slaveResults =
                   SetResult(@, slaveId, [success |-> success,
                                          timestamp |-> timestamp, error |-> error])]
        newStatus == calculateServiceStatus(s1, t)
        r == IF s1.lastStatus # newStatus
             THEN handleStatusChange(id, s1, newStatus, t)
             ELSE [svc |-> s1,
                   events |-> IF newStatus = "DOWN"
                              THEN <<Event("down", id, Zero)>> ELSE <<>>]
    IN  [svc |-> [r.svc EXCEPT !.lastCheck = t], events |-> r.events]

\* a handler that recomputes the percentages on every report
ReportEffect_Recomputing(id, svc, slaveId, timestamp, success, error, t) ==
    LET s1 == [svc EXCEPT !.slaveResults =
                   SetResult(@, slaveId, [success |-> success,
                                          timestamp |-> timestamp, error |-> error])]
        newStatus == calculateServiceStatus(s1, t)
        r == IF s1.lastStatus # newStatus
             THEN handleStatusChange(id, s1, newStatus, t)
             ELSE [svc |-> updateUptimePercentages(s1, t), events |-> <<>>]
    IN  [svc |-> [r.svc EXCEPT !.lastCheck = t], events |-> r.events]

\* [svc, events] after the body of handleReport for a service that exists
ReportEffect(id, svc, slaveId, timestamp, success, error, t) ==
    LET s1 == [svc EXCEPT !.slaveResults =
                   SetResult(@, slaveId, [success |-> success,
                                          timestamp |-> timestamp, error |-> error])]
        newStatus == calculateServiceStatus(s1, t)
        r == IF s1.lastStatus # newStatus
             THEN handleStatusChange(id, s1, newStatus, t)
             ELSE [svc |-> s1, events |-> <<>>]
    IN  [svc |-> [r.svc EXCEPT !.lastCheck = t], events |-> r.events]

----------------------------------------------------------------------------
(* The memory a handler works on, and the suspended operations *)

Mem == [services |-> services, slaves |-> slaves, heap |-> heap,
        tasks |-> tasks, events |-> <<>>]

\* the continuation of the caller awaiting a distributeService:
\*   "none" - nobody awaits it (addService, checkSlaveHealth)
\*   "edit" - editService, which only logs afterwards
\*   "hb"   - handleHeartbeat's loop over this.services; slave is its slaveId,
\*            last the service it is at, and its local array `services` is the
\*            array stored in SlaveInfo object obj while obj # 0 (the object
\*            still holds that array), else the frozen copy arr
NoCont == [k |-> "none", slave |-> 0, obj |-> 0, arr |-> <<>>, last |-> 0]
EditCont == [NoCont EXCEPT !.k = "edit"]

\* a suspended operation:
\*   kind "edit", phase "save"   - editService awaiting saveState()
\*   kind "dist", phase "delete" - distributeService awaiting the DELETE sent to
\*        slave capId, whose SlaveInfo object cap it holds; idx is the position
\*        of its iterator in this.slaves
\*   kind "dist", phase "notify" - distributeService awaiting its POSTs and saveState()
DistTask(sid, assigned, cont) ==
    [kind |-> "dist", phase |-> "notify", svc |-> sid, assigned |-> assigned,
     idx |-> 0, cap |-> 0, capId |-> 0, cont |-> cont]
EditTask(sid) ==
    [kind |-> "edit", phase |-> "save", svc |-> sid, assigned |-> <<>>,
     idx |-> 0, cap |-> 0, capId |-> 0, cont |-> NoCont]

EmptyTasks == [x \in {} |-> 0]

RECURSIVE SumCounts(_, _)
SumCounts(B, S) ==
    IF S = {} THEN 0
    ELSE LET x == CHOOSE y \in S : TRUE IN B[x] + SumCounts(B, S \ {x})

TaskCount(B) == SumCounts(B, DOMAIN B)
AddTask(B, e) == IF e \in DOMAIN B THEN [B EXCEPT ![e] = @ + 1]
                 ELSE [x \in DOMAIN B \cup {e} |-> IF x = e THEN 1 ELSE B[x]]
RemoveTask(B, e) == IF B[e] = 1 THEN [x \in DOMAIN B \ {e} |-> B[x]]
                    ELSE [B EXCEPT ![e] = @ - 1]
\* the bag of F(x) for the x of bag B
MapTasks(B, F(_)) ==
    IF DOMAIN B = {} THEN B
    ELSE [y \in {F(x) : x \in DOMAIN B} |-> SumCounts(B, {x \in DOMAIN B : F(x) = y})]

----------------------------------------------------------------------------
(* AgentRegistry: this.slaves, a Map of SlaveInfo objects *)

HasSlave(sl, a) == \E i \in 1..Len(sl) : sl[i].id = a
SlaveIndex(sl, a) == CHOOSE i \in 1..Len(sl) : sl[i].id = a
SlaveObj(sl, a) == sl[SlaveIndex(sl, a)].obj
SlaveIds(sl) == [i \in 1..Len(sl) |-> sl[i].id]

NewObj(h) == CHOOSE o \in 1..(Cardinality(DOMAIN h) + 1) : o \notin DOMAIN h

\* this.slaves.set(a, obj): an existing key keeps its position
SetSlave(sl, a, o) ==
    IF HasSlave(sl, a)
    THEN [i \in 1..Len(sl) |-> IF sl[i].id = a THEN [id |-> a, obj |-> o] ELSE sl[i]]
    ELSE Append(sl, [id |-> a, obj |-> o])

\* this.slaves.delete at position i; the iterators of suspended loops follow
DeleteSlaveAt(m, i) ==
    [m EXCEPT !.slaves = [j \in 1..(Len(m.slaves) - 1) |->
                             IF j < i THEN m.slaves[j] ELSE m.slaves[j + 1]],
              !.tasks = MapTasks(m.tasks,
                 LAMBDA tk : IF tk.phase = "delete" /\ tk.idx >= i
                             THEN [tk EXCEPT !.idx = @ - 1] ELSE tk)]

\* slave.services.push(id) on the object of slave a, if not already there
PushService(m, a, sid) ==
    IF ~HasSlave(m.slaves, a) THEN m
    ELSE LET o == SlaveObj(m.slaves, a) IN
         IF InSeq(sid, m.heap[o].services) THEN m
         ELSE [m EXCEPT !.heap[o].services = Append(@, sid)]

\* slave.services = slave.services.filter(s => s !== id) on object o: a new
\* array, so a heartbeat loop holding the old one keeps the old contents
FilterAssign(m, o, sid) ==
    [m EXCEPT !.heap[o].services = Without(@, sid),
              !.tasks = MapTasks(m.tasks,
                 LAMBDA tk : IF tk.cont.k = "hb" /\ tk.cont.obj = o
                             THEN [tk EXCEPT !.cont.arr = m.heap[o].services,
                                             !.cont.obj = 0]
                             ELSE tk)]

IsActive(lastSeen, t) == TLt(TSub(t, lastSeen), Ms(ACTIVE_WINDOW_MS))

ActiveSlaves(m, t) ==
    SlaveIds(SelectSeq(m.slaves, LAMBDA e : IsActive(m.heap[e.obj].lastSeen, t)))

\* this.slaves.get(a)?.services.length || 0
ClaimedCount(m, a) ==
    IF HasSlave(m.slaves, a) THEN Len(m.heap[SlaveObj(m.slaves, a)].services) ELSE 0

----------------------------------------------------------------------------
(* ServiceDistributor *)

PrefersFirst_Strict(servicesA, servicesB) == servicesA < servicesB

\* a choice that keeps the first available slave whatever it claims
PrefersFirst_Ignoring(servicesA, servicesB) == TRUE

\* servicesA <= servicesB ? a : b
PrefersFirst(servicesA, servicesB) == servicesA <= servicesB

RECURSIVE ReduceFewest(_, _, _)
ReduceFewest(m, a, rest) ==
    IF rest = <<>> THEN a
    ELSE LET b == Head(rest)
         IN  With(IF PrefersFirst(ClaimedCount(m, a), ClaimedCount(m, b)) THEN a ELSE b,
                  LAMBDA fewest : ReduceFewest(m, fewest, Tail(rest)))

TargetSize(n) == Min2(TARGET_REPLICAS, n)

RECURSIVE AssignLoop(_, _, _)
AssignLoop(m, assignedSlaves, activeSlaves) ==
    IF Len(assignedSlaves) < TargetSize(Len(activeSlaves))
    THEN LET availableSlaves == SelectSeq(activeSlaves,
                                          LAMBDA a : ~InSeq(a, assignedSlaves))
         IN  IF availableSlaves = <<>> THEN assignedSlaves
             ELSE With(Append(assignedSlaves,
                              ReduceFewest(m, Head(availableSlaves),
                                           Tail(availableSlaves))),
                       LAMBDA pushed : AssignLoop(m, pushed, activeSlaves))
    ELSE assignedSlaves

\* the synchronous heads of the notifyPromises closures
RECURSIVE NotifyAll(_, _, _)
NotifyAll(m, sid, assignedSlaves) ==
    IF assignedSlaves = <<>> THEN m
    ELSE With(PushService(m, Head(assignedSlaves), sid),
              LAMBDA m1 : NotifyAll(m1, sid, Tail(assignedSlaves)))

\* the loop "Remove service from unassigned slaves", from the entry after
\* tk.idx up to its next await
RECURSIVE RemoveLoop(_, _)
RemoveLoop(m, tk) ==
    LET i == tk.idx + 1 IN
    IF i > Len(m.slaves)
    THEN [m EXCEPT !.tasks = AddTask(@, [tk EXCEPT !.phase = "notify", !.idx = 0,
                                                   !.cap = 0, !.capId = 0])]
    ELSE LET e == m.slaves[i] IN
         IF ~InSeq(e.id, tk.assigned) /\ InSeq(tk.svc, m.heap[e.obj].services)
         THEN [m EXCEPT !.tasks = AddTask(@, [tk EXCEPT !.phase = "delete", !.idx = i,
                                                        !.cap = e.obj, !.capId = e.id])]
         ELSE With([tk EXCEPT !.idx = i, !.cap = 0, !.capId = 0],
                   LAMBDA next : RemoveLoop(m, next))

\* what distributeService leaves in service.assignedSlaves
NewAssignment(m, sid, t) ==
    With(ActiveSlaves(m, t), LAMBDA activeSlaves :
        IF Len(activeSlaves) = 0 THEN m.services[sid].assignedSlaves
        ELSE With(SelectSeq(m.services[sid].assignedSlaves,
                            LAMBDA a : InSeq(a, activeSlaves)),
                  LAMBDA kept : AssignLoop(m, kept, activeSlaves)))

\* distributeService(service) up to its first await, or to its return when
\* no slave is active: [m, done]
DistributeStart(m, sid, t, cont) ==
    IF Len(ActiveSlaves(m, t)) = 0
    THEN [m |-> [m EXCEPT !.events = Append(@, Event("noActiveSlaves", sid, Zero))],
          done |-> TRUE]
    ELSE With(NewAssignment(m, sid, t), LAMBDA assignedSlaves :
         With([m EXCEPT !.services[sid].assignedSlaves = assignedSlaves], LAMBDA m1 :
         With(NotifyAll(m1, sid, assignedSlaves), LAMBDA m2 :
              [m |-> RemoveLoop(m2, DistTask(sid, assignedSlaves, cont)),
               done |-> FALSE])))

----------------------------------------------------------------------------
(* handleHeartbeat's loop over this.services *)

HbArray(m, hb) == IF hb.obj # 0 THEN m.heap[hb.obj].services ELSE hb.arr

NextService(m, last) ==
    LET later == {id \in DOMAIN m.services : id > last /\ m.services[id].present}
    IN  IF later = {} THEN 0
        ELSE CHOOSE id \in later : \A other \in later : id <= other

needsRedistribution(m, hb, serviceId) ==
    LET service == m.services[serviceId] IN
    \/ Len(service.assignedSlaves) = 0
    \/ (InSeq(hb.slave, service.assignedSlaves) /\ ~InSeq(serviceId, HbArray(m, hb)))
    \/ Len(service.assignedSlaves) < TargetSize(Len(m.slaves))

\* the loop from the service after hb.last up to its next await
RECURSIVE HeartbeatLoop(_, _, _)
HeartbeatLoop(m, hb, t) ==
    LET serviceId == NextService(m, hb.last) IN
    IF serviceId = 0 THEN m
    ELSE With([hb EXCEPT !.last = serviceId], LAMBDA at :
         IF needsRedistribution(m, hb, serviceId)
         THEN With(DistributeStart(m, serviceId, t, at), LAMBDA r :
                   IF r.done THEN HeartbeatLoop(r.m, at, t) ELSE r.m)
         ELSE HeartbeatLoop(m, at, t))

\* the caller of a distributeService that has returned goes on
Continue(m, cont, t) ==
    IF cont.k = "hb" THEN HeartbeatLoop(m, cont, t) ELSE m

----------------------------------------------------------------------------
(* HealthSweeper: checkSlaveHealth *)

\* a sweeper that takes an agent of exactly 60 s of silence for down
IsUnhealthy_Inclusive(lastSeen, t) == TLe(Ms(ACTIVE_WINDOW_MS), TSub(t, lastSeen))

\* now - info.lastSeen > 60000
IsUnhealthy(lastSeen, t) == TLt(Ms(ACTIVE_WINDOW_MS), TSub(t, lastSeen))
IsEvictable(lastSeen, t) == TLt(Ms(EVICT_AFTER_MS), TSub(t, lastSeen))

\* for (const serviceId of info.services) this.distributeService(service)
RECURSIVE SweepServices(_, _, _)
SweepServices(m, ids, t) ==
    IF ids = <<>> THEN m
    ELSE With(IF Present(m.services, Head(ids))
              THEN DistributeStart(m, Head(ids), t, NoCont).m
              ELSE m,
              LAMBDA m1 : SweepServices(m1, Tail(ids), t))

RECURSIVE SweepLoop(_, _, _)
SweepLoop(m, i, t) ==
    IF i > Len(m.slaves) THEN m
    ELSE LET e == m.slaves[i]
             info == m.heap[e.obj]
         IN  IF IsUnhealthy(info.lastSeen, t)
             THEN With([m EXCEPT !.events =
                                  Append(@, Event("appearsDown", e.id, Zero))], LAMBDA m0 :
                  With(SweepServices(m0, info.services, t), LAMBDA m1 :
                  IF IsEvictable(info.lastSeen, t)
                  THEN With([DeleteSlaveAt(m1, i) EXCEPT
                                !.events = Append(@, Event("offline", e.id, Zero))],
                            LAMBDA m2 : SweepLoop(m2, i, t))
                  ELSE SweepLoop(m1, i + 1, t)))
             ELSE SweepLoop(m, i + 1, t)

----------------------------------------------------------------------------
(* Objects nothing refers to any more are dropped, and the rest are named   *)
(* by what they are: the object of table entry i is i, the objects only    *)
(* suspended loops still hold follow, in the order of their contents       *)

RECURSIVE LexLt(_, _)
LexLt(x, y) ==
    IF x = <<>> THEN FALSE
    ELSE Head(x) < Head(y) \/ (Head(x) = Head(y) /\ LexLt(Tail(x), Tail(y)))

RECURSIVE Code(_)
Code(ids) == IF ids = <<>> THEN 0 ELSE Head(ids) + 10 * Code(Tail(ids))

\* the key that orders the objects no table entry holds
LooseKey(m, o) ==
    LET tk == CHOOSE x \in DOMAIN m.tasks : x.cap = o
    IN  <<tk.capId, m.heap[o].lastSeen.d, m.heap[o].lastSeen.ms,
          Len(m.heap[o].services), Code(m.heap[o].services)>>

LooseBefore(m, p, o) ==
    LexLt(LooseKey(m, p), LooseKey(m, o)) \/ (LooseKey(m, p) = LooseKey(m, o) /\ p < o)

\* the new name of every object that is still held, and 0 for the others
Names(m) ==
    LET n == Len(m.slaves)
        inTable == {m.slaves[i].obj : i \in 1..n}
        loose == {tk.cap : tk \in DOMAIN m.tasks} \ (inTable \cup {0})
    IN  [o \in DOMAIN m.heap \cup {0} |->
            IF o \in inTable THEN CHOOSE i \in 1..n : m.slaves[i].obj = o
            ELSE IF o \in loose
            THEN n + 1 + Cardinality({p \in loose : LooseBefore(m, p, o)})
            ELSE 0]

Renamed(m, tk, name) ==
    IF tk.cont.obj # 0 /\ name[tk.cont.obj] = 0
    THEN [tk EXCEPT !.cap = name[tk.cap],
                    !.cont.arr = m.heap[tk.cont.obj].services,
                    !.cont.obj = 0]
    ELSE [tk EXCEPT !.cap = name[tk.cap], !.cont.obj = name[tk.cont.obj]]

Collect(m) ==
    IF DOMAIN m.tasks = {}
    THEN [m EXCEPT
            !.slaves = [i \in 1..Len(m.slaves) |-> [id |-> m.slaves[i].id, obj |-> i]],
            !.heap = [k \in 1..Len(m.slaves) |-> m.heap[m.slaves[k].obj]],
            !.services = [id \in {i \in DOMAIN m.services : m.services[i].present}
                            |-> m.services[id]]]
    ELSE With(Names(m), LAMBDA name :
    LET held == {o \in DOMAIN m.heap : name[o] # 0}
        editing == {tk.svc : tk \in {x \in DOMAIN m.tasks : x.kind = "edit"}}
        kept == {id \in DOMAIN m.services : m.services[id].present \/ id \in editing}
    IN  [m EXCEPT
          !.slaves = [i \in 1..Len(m.slaves) |-> [id |-> m.slaves[i].id, obj |-> i]],
          !.heap = [k \in 1..Cardinality(held) |->
                       m.heap[CHOOSE o \in held : name[o] = k]],
          !.tasks = MapTasks(m.tasks, LAMBDA tk : Renamed(m, tk, name)),
          !.services = [id \in kept |-> m.services[id]]])

Commit(m) ==
    \E c \in {Collect(left) : left \in {m}} :
    /\ services' = c.services
    /\ slaves' = c.slaves
    /\ heap' = c.heap
    /\ tasks' = c.tasks
    /\ events' = c.events

----------------------------------------------------------------------------
(* Bounds and input domains *)

\* the whole master: agents that heartbeat and report, services ever added,
\* operations suspended at once
NumAgents == 2
MaxServices == 1
MaxTasks == 1

Agents == 1..NumAgents
ServiceIds == 1..MaxServices
\* clock readings: an agent seen at 0 is stale at 60001 and evictable at 300001
Instants == {Ms(0), Ms(60001), Ms(300001)}

HttpConfig == [type |-> "http", name |-> 1, url |-> 1, host |-> 0,
               interval |-> 1, timeout |-> 1]
IcmpConfig == [type |-> "icmp", name |-> 1, url |-> 0, host |-> 1,
               interval |-> 1, timeout |-> 1]
\* bodies of PUT /services/:id: the fields present and their new values
NameUpdate == [f \in {"name"} |-> 2]
HostUpdate == [f \in {"host"} |-> 2]
\* a valid field together with one that an http service does not have
MixedUpdate == [f \in {"name", "host"} |-> 2]

\* x-slave-services: the ascending lists over the service ids
RECURSIVE Ascending(_)
Ascending(n) ==
    IF n = 0 THEN {<<>>}
    ELSE Ascending(n - 1) \cup {Append(s, n) : s \in Ascending(n - 1)}
ClaimLists == Ascending(MaxServices)

\* the suspended operations stay within the bound
Within(bound) == TaskCount(tasks') <= bound

----------------------------------------------------------------------------
(* Actions: one per handler segment between two awaits on I/O *)

Init ==
    /\ now = Zero
    /\ services = [id \in {} |-> 0]
    /\ nextId = 0
    /\ slaves = <<>>
    /\ heap = [o \in {} |-> 0]
    /\ tasks = EmptyTasks
    /\ events = <<>>
    /\ probe = <<>>

\* the clock moves on between two handlers
Tick(t) ==
    /\ TLt(now, t)
    /\ now' = t
    /\ events' = <<>>
    /\ UNCHANGED <<services, nextId, slaves, heap, tasks, probe>>

\* a handler that swallows its error
Reject_Silent(type, id) ==
    /\ events' = <<>>
    /\ UNCHANGED <<now, services, nextId, slaves, heap, tasks, probe>>

\* a handler that throws before it changed anything
Reject(type, id) ==
    /\ events' = <<Event(type, id, Zero)>>
    /\ UNCHANGED <<now, services, nextId, slaves, heap, tasks, probe>>

\* POST /services: distributeService is not awaited
AddService(cfg) ==
    LET id == nextId + 1
        m0 == [Mem EXCEPT !.services =
                  [i \in DOMAIN services \cup {id} |->
                      IF i = id THEN NewService(now, cfg) ELSE services[i]]]
        r == DistributeStart(m0, id, now, NoCont)
    IN  /\ nextId' = id
        /\ Commit(r.m)
        /\ UNCHANGED <<now, probe>>

\* DELETE /services/:id, up to this.services.delete(id)
RECURSIVE Unclaim(_, _, _)
Unclaim(m, assignedSlaves, id) ==
    IF assignedSlaves = <<>> THEN m
    ELSE LET a == Head(assignedSlaves)
         IN  With(IF HasSlave(m.slaves, a)
                  THEN FilterAssign(m, SlaveObj(m.slaves, a), id)
                  ELSE m,
                  LAMBDA m1 : Unclaim(m1, Tail(assignedSlaves), id))

RemoveService(id) ==
    IF ~Present(services, id) THEN Reject("NotFound", id)
    ELSE LET m1 == Unclaim(Mem, services[id].assignedSlaves, id)
             m2 == [m1 EXCEPT !.services[id].present = FALSE]
         IN  /\ Commit(m2)
             /\ UNCHANGED <<now, nextId, probe>>

\* if (updates.name): a field that is there and is neither '' nor 0, which
\* the value 0 stands for
Truthy(updates, f) == f \in DOMAIN updates /\ updates[f] # 0

\* an edit that also resets the service to UP
ApplyUpdates_Resetting(svc, updates) ==
    LET Has(f) == f \in DOMAIN updates
        name1 == IF Truthy(updates, "name") THEN updates["name"] ELSE svc.name
        url1 == IF svc.type = "http" /\ Has("url") THEN updates["url"] ELSE svc.url
        host1 == IF svc.type = "icmp" /\ Has("host") THEN updates["host"] ELSE svc.host
        interval1 == IF Truthy(updates, "interval") THEN updates["interval"] ELSE svc.interval
        timeout1 == IF Truthy(updates, "timeout") THEN updates["timeout"] ELSE svc.timeout
    IN  [svc EXCEPT !.name = name1, !.url = url1, !.host = host1,
                    !.interval = interval1, !.timeout = timeout1,
                    !.lastStatus = "UP", !.currentIncident = NoIncident]

ApplyUpdates(svc, updates) ==
    LET Has(f) == f \in DOMAIN updates
        name1 == IF Truthy(updates, "name") THEN updates["name"] ELSE svc.name
        url1 == IF svc.type = "http" /\ Has("url") THEN updates["url"] ELSE svc.url
        host1 == IF svc.type = "icmp" /\ Has("host") THEN updates["host"] ELSE svc.host
        interval1 == IF Truthy(updates, "interval") THEN updates["interval"] ELSE svc.interval
        timeout1 == IF Truthy(updates, "timeout") THEN updates["timeout"] ELSE svc.timeout
    IN  [svc EXCEPT !.name = name1, !.url = url1, !.host = host1,
                    !.interval = interval1, !.timeout = timeout1]

Incompatible(svc, updates) ==
    \/ svc.type = "http" /\ "host" \in DOMAIN updates
    \/ svc.type = "icmp" /\ "url" \in DOMAIN updates

\* an editService that validates after it has applied the update
EditService_ValidatingLate(id, updates) ==
    IF ~Present(services, id) THEN Reject("NotFound", id)
    ELSE IF Incompatible(services[id], updates)
    THEN /\ services' = [services EXCEPT ![id] = ApplyUpdates(@, updates)]
         /\ events' = <<Event("Validation", id, Zero)>>
         /\ UNCHANGED <<now, nextId, slaves, heap, tasks, probe>>
    ELSE LET m1 == [Mem EXCEPT !.services[id] = ApplyUpdates(@, updates),
                               !.tasks = AddTask(@, EditTask(id))]
         IN  /\ Commit(m1)
             /\ UNCHANGED <<now, nextId, probe>>

\* PUT /services/:id, up to "await this.saveState()"
EditService(id, updates) ==
    IF ~Present(services, id) THEN Reject("NotFound", id)
    ELSE IF Incompatible(services[id], updates) THEN Reject("Validation", id)
    ELSE LET m1 == [Mem EXCEPT !.services[id] = ApplyUpdates(@, updates),
                               !.tasks = AddTask(@, EditTask(id))]
         IN  /\ Commit(m1)
             /\ UNCHANGED <<now, nextId, probe>>

\* editService after its save: "await this.distributeService(service)"
EditResume(tk) ==
    /\ tk \in DOMAIN tasks /\ tk.kind = "edit"
    /\ LET m0 == [Mem EXCEPT !.tasks = RemoveTask(@, tk)]
           r == DistributeStart(m0, tk.svc, now, EditCont)
       IN  Commit(r.m)
    /\ UNCHANGED <<now, nextId, probe>>

\* a distributeService that lets the failure of a DELETE escape to its caller
DeleteSettled_Unwinding(tk, ok) ==
    /\ tk \in DOMAIN tasks /\ tk.kind = "dist" /\ tk.phase = "delete"
    /\ LET m0 == [Mem EXCEPT !.tasks = RemoveTask(@, tk)]
       IN  IF ok
           THEN Commit(RemoveLoop([FilterAssign(m0, tk.cap, tk.svc) EXCEPT
                                      !.slaves = SetSlave(@, tk.capId, tk.cap)], tk))
           ELSE Commit(m0)
    /\ UNCHANGED <<now, nextId, probe>>

\* distributeService after the DELETE to slave tk.capId settled: it resolved
\* (ok) or it rejected and the catch logged it
DeleteSettled(tk, ok) ==
    /\ tk \in DOMAIN tasks /\ tk.kind = "dist" /\ tk.phase = "delete"
    /\ LET m0 == [Mem EXCEPT !.tasks = RemoveTask(@, tk)]
           m1 == IF ok
                 THEN [FilterAssign(m0, tk.cap, tk.svc) EXCEPT
                          !.slaves = SetSlave(@, tk.capId, tk.cap)]
                 ELSE m0
       IN  Commit(RemoveLoop(m1, tk))
    /\ UNCHANGED <<now, nextId, probe>>

\* distributeService after its POSTs and saveState() settled, all of them
\* done (ok) or some failed, which the catch of each logged: it returns and
\* the caller awaiting it goes on
NotifySettled(tk, ok) ==
    /\ tk \in DOMAIN tasks /\ tk.kind = "dist" /\ tk.phase = "notify"
    /\ LET m0 == [Mem EXCEPT !.tasks = RemoveTask(@, tk)]
       IN  Commit(Continue(m0, tk.cont, now))
    /\ UNCHANGED <<now, nextId, probe>>

\* the memory after handleHeartbeat ran up to its first await, or to its end
HeartbeatEffect(slaveId, claimed) ==
    LET o == NewObj(heap)
        m1 == [Mem EXCEPT
                 !.heap = [x \in DOMAIN heap \cup {o} |->
                             IF x = o THEN [lastSeen |-> now, services |-> claimed]
                             ELSE heap[x]],
                 !.slaves = SetSlave(@, slaveId, o)]
        hb == [k |-> "hb", slave |-> slaveId, obj |-> o, arr |-> <<>>, last |-> 0]
    IN  HeartbeatLoop(m1, hb, now)

\* POST /heartbeat
HandleHeartbeat(slaveId, claimed) ==
    /\ Commit(HeartbeatEffect(slaveId, claimed))
    /\ UNCHANGED <<now, nextId, probe>>

\* the 30 s timer
CheckSlaveHealth ==
    LET m1 == SweepLoop(Mem, 1, now)
    IN  /\ Commit(m1)
        /\ UNCHANGED <<now, nextId, probe>>

\* POST /report
HandleReport(slaveId, serviceId, timestamp, success, error) ==
    IF ~Present(services, serviceId) THEN Reject("NotFound", serviceId)
    ELSE LET r == ReportEffect(serviceId, services[serviceId], slaveId,
                               timestamp, success, error, now)
         IN  /\ services' = [services EXCEPT ![serviceId] = r.svc]
             /\ events' = r.events
             /\ UNCHANGED <<now, nextId, slaves, heap, tasks, probe>>

\* what a report can carry
Success == [success |-> TRUE, error |-> NoError]
Failure == [success |-> FALSE, error |-> "timeout"]
SilentFailure == [success |-> FALSE, error |-> NoError]
\* the agent whose reports the whole-master specification follows
Reporter == 1

Next ==
    \/ \E t \in Instants : Tick(t)
    \/ nextId < MaxServices /\ AddService(HttpConfig) /\ Within(MaxTasks)
    \/ \E id \in ServiceIds : RemoveService(id)
    \/ \E id \in ServiceIds, u \in {NameUpdate, HostUpdate, MixedUpdate} :
          EditService(id, u) /\ Within(MaxTasks)
    \/ \E tk \in DOMAIN tasks : EditResume(tk) /\ Within(MaxTasks)
    \/ \E tk \in DOMAIN tasks, ok \in BOOLEAN : DeleteSettled(tk, ok) /\ Within(MaxTasks)
    \/ \E tk \in DOMAIN tasks, ok \in BOOLEAN : NotifySettled(tk, ok) /\ Within(MaxTasks)
    \/ \E a \in Agents, c \in ClaimLists : HandleHeartbeat(a, c) /\ Within(MaxTasks)
    \/ CheckSlaveHealth /\ Within(MaxTasks)
    \/ \E id \in ServiceIds, o \in {Success, Failure} :
          HandleReport(Reporter, id, now, o.success, o.error)

Spec == Init /\ [][Next]_vars

----------------------------------------------------------------------------
(* The report path alone: services come and go and agents report, no agent  *)
(* ever heartbeats.  More observers and both sides of the report thresholds *)

NumObservers == 4
Observers == 1..NumObservers
\* a result of time 0 is stale at 300000
QuorumInstants == {Ms(0), Ms(300000)}

NextQuorum ==
    \/ \E t \in QuorumInstants : Tick(t)
    \/ nextId < MaxServices /\ AddService(IcmpConfig)
    \/ \E id \in ServiceIds : RemoveService(id)
    \/ \E a \in Observers, id \in ServiceIds, o \in {Success, Failure} :
          HandleReport(a, id, now, o.success, o.error)

SpecQuorum == Init /\ [][NextQuorum]_vars

\* two observers, on both sides of the thresholds of the report path: an
\* incident opened at 0 lasts 9999 or 10000 ms, a result of 0 is stale at 300000
NumReporters == 2
Reporters == 1..NumReporters
ReportInstants == {Ms(0), Ms(9999), Ms(10000), Ms(299999), Ms(300000)}

NextReport ==
    \/ \E t \in ReportInstants : Tick(t)
    \/ nextId < MaxServices /\ AddService(IcmpConfig)
    \/ \E id \in ServiceIds : RemoveService(id)
    \/ \E a \in Reporters, id \in ServiceIds, ts \in {now, Zero},
          o \in {Success, Failure, SilentFailure} :
          HandleReport(a, id, ts, o.success, o.error)

SpecReport == Init /\ [][NextReport]_vars

----------------------------------------------------------------------------
(* The ledger over the months: one agent reports on a service while the     *)
(* clock crosses the retention window.  An incident opened at midnight is   *)
(* closed 10 s, a day, 31 days or 62 days later, and a day can see two      *)
(* incidents                                                                *)

LedgerInstants ==
    {Ms(0), Ms(MIN_DOWNTIME_MS), Ms(2 * MIN_DOWNTIME_MS),
     Days(1), TAdd(Days(1), Ms(MIN_DOWNTIME_MS)),
     Days(DAYS_TO_KEEP + 1), TAdd(Days(DAYS_TO_KEEP + 1), Ms(MIN_DOWNTIME_MS)),
     Days(2 * DAYS_TO_KEEP + 2)}

NextLedger ==
    \/ \E t \in LedgerInstants : Tick(t)
    \/ nextId < MaxServices /\ AddService(IcmpConfig)
    \/ \E id \in ServiceIds, o \in {Success, Failure} :
          HandleReport(Reporter, id, now, o.success, o.error)

SpecLedger == Init /\ [][NextLedger]_vars

----------------------------------------------------------------------------
(* The editor: services of both kinds are added, assigned to the agents     *)
(* that heartbeat, and edited with updates that carry any fields out of     *)
(* name, url, host and interval, each either empty (0) or new (2)           *)

EditFields == {"name", "url", "host", "interval"}
Updates == UNION {[fs -> {0, 2}] : fs \in SUBSET EditFields}

NextEdit ==
    \/ \E cfg \in {HttpConfig, IcmpConfig} :
          nextId < MaxServices /\ AddService(cfg) /\ Within(MaxTasks)
    \/ \E id \in ServiceIds, u \in Updates : EditService(id, u) /\ Within(MaxTasks)
    \/ \E tk \in DOMAIN tasks : EditResume(tk) /\ Within(MaxTasks)
    \/ \E tk \in DOMAIN tasks, ok \in BOOLEAN : NotifySettled(tk, ok) /\ Within(MaxTasks)
    \/ \E a \in Agents, c \in ClaimLists : HandleHeartbeat(a, c) /\ Within(MaxTasks)

SpecEdit == Init /\ [][NextEdit]_vars

----------------------------------------------------------------------------
(* The fleet left to itself: a service is added, agents heartbeat, the      *)
(* sweeper runs and every request sent to an agent is answered in the end.  *)
(* Some agent keeps sending heartbeats, the 30 s timer keeps firing         *)

\* a handled heartbeat, a sweep, the settling of a request
Heartbeat == \E a \in Agents, c \in ClaimLists : HandleHeartbeat(a, c) /\ Within(MaxTasks)
Sweep == CheckSlaveHealth /\ Within(MaxTasks)
Settle ==
    \/ \E tk \in DOMAIN tasks, ok \in BOOLEAN : DeleteSettled(tk, ok) /\ Within(MaxTasks)
    \/ \E tk \in DOMAIN tasks, ok \in BOOLEAN : NotifySettled(tk, ok) /\ Within(MaxTasks)

NextHeal ==
    \/ \E t \in Instants : Tick(t)
    \/ nextId < MaxServices /\ AddService(HttpConfig) /\ Within(MaxTasks)
    \/ Heartbeat
    \/ Sweep
    \/ Settle

\* heartbeats keep being handled, the timer keeps firing and no request to
\* an agent stays unanswered
SpecHeal ==
    /\ Init /\ [][NextHeal]_vars
    /\ WF_vars(Heartbeat)
    /\ WF_vars(Sweep)
    /\ WF_vars(Settle)

----------------------------------------------------------------------------
(* The fleet with agents that may leave a request unanswered: heartbeats    *)
(* keep being handled, the timer keeps firing and the local save of         *)
(* editService settles, but nothing makes a request sent to an agent        *)
(* settle.  The parity of the number of heartbeats handled is recorded      *)

InitSilent ==
    /\ now = Zero
    /\ services = [id \in {} |-> 0]
    /\ nextId = 0
    /\ slaves = <<>>
    /\ heap = [o \in {} |-> 0]
    /\ tasks = EmptyTasks
    /\ events = <<>>
    /\ probe = 0

\* POST /heartbeat, counted
CountedHeartbeat(slaveId, claimed) ==
    /\ Commit(HeartbeatEffect(slaveId, claimed))
    /\ probe' = 1 - probe
    /\ UNCHANGED <<now, nextId>>

\* a handled heartbeat
Beat == \E a \in Agents, c \in ClaimLists : CountedHeartbeat(a, c) /\ Within(MaxTasks)
\* the save that editService awaits settles
Resume == \E tk \in DOMAIN tasks : EditResume(tk) /\ Within(MaxTasks)

NextSilent ==
    \/ \E t \in Instants : Tick(t)
    \/ nextId < MaxServices /\ AddService(HttpConfig) /\ Within(MaxTasks)
    \/ \E id \in ServiceIds : EditService(id, NameUpdate) /\ Within(MaxTasks)
    \/ Resume
    \/ Beat
    \/ Sweep
    \/ Settle

SpecSilent ==
    /\ InitSilent /\ [][NextSilent]_vars
    /\ WF_vars(Resume)
    /\ WF_vars(Beat)
    /\ WF_vars(Sweep)

----------------------------------------------------------------------------
(* distributeService alone: it is called on service 1 of a master whose     *)
(* agent table and assignment are drawn from bounded sets, its requests to  *)
(* the agents settle, and it is called again.  Agents are named by their    *)
(* position in the table; an assigned agent above the table's size is one   *)
(* that was evicted                                                        *)

DistAgents == 4
MaxPrior == 2
MaxCalls == 2

Subject == 1
Other == 2
\* when distributeService is called; an agent last seen at LastActive is
\* active then, one last seen at 0 is not
CallTime == Ms(ACTIVE_WINDOW_MS)
LastActive == Ms(1)
\* what an agent may claim: nothing, the service, or another service
DistClaims == {<<>>, <<Subject>>, <<Other>>}

RECURSIVE Distinct(_, _)
\* the sequences of at most n distinct elements of S
Distinct(S, n) ==
    IF n = 0 THEN {<<>>}
    ELSE LET shorter == Distinct(S, n - 1)
         IN  shorter \cup
             UNION {{Append(s, x) : x \in S \ {s[i] : i \in DOMAIN s}} : s \in shorter}

\* what a call leaves behind or finds: the assignment and each table entry's
\* claimed list
Snapshot ==
    [assigned |-> services[Subject].assignedSlaves,
     claimed |-> [i \in 1..Len(slaves) |-> heap[slaves[i].obj].services]]

InitDist ==
    /\ now = CallTime
    /\ nextId = Subject
    /\ \E prior \in Distinct(1..DistAgents, MaxPrior) :
          services = [id \in {Subject} |->
                         [NewService(Zero, HttpConfig) EXCEPT !.assignedSlaves = prior]]
    /\ \E k \in 0..DistAgents :
          /\ slaves = [i \in 1..k |-> [id |-> i, obj |-> i]]
          /\ heap \in [1..k -> [lastSeen : {Zero, LastActive}, services : DistClaims]]
    /\ tasks = EmptyTasks
    /\ events = <<>>
    /\ probe = <<>>

\* a call of distributeService(service) by a caller that does not await it,
\* made when the call before it has returned
DistributeService ==
    /\ tasks = EmptyTasks
    /\ Len(probe) < MaxCalls
    /\ probe' = Append(probe, Snapshot)
    /\ Commit(DistributeStart(Mem, Subject, now, NoCont).m)
    /\ UNCHANGED <<now, nextId>>

NextDist ==
    \/ DistributeService
    \/ \E tk \in DOMAIN tasks, ok \in BOOLEAN : DeleteSettled(tk, ok)
    \/ \E tk \in DOMAIN tasks, ok \in BOOLEAN : NotifySettled(tk, ok)

SpecDist == InitDist /\ [][NextDist]_vars

----------------------------------------------------------------------------
(* A heartbeat's round over several services: the master holds services     *)
(* that are assigned to nobody or to agent 1, agent 1 may be in the table,  *)
(* silent since time 0 or active, claiming any of the services; agents      *)
(* heartbeat and every request sent to an agent succeeds or fails           *)

RoundServices == 2
RoundIds == 1..RoundServices
RoundClaims == Ascending(RoundServices)

InitRound ==
    /\ now = CallTime
    /\ nextId = RoundServices
    /\ services \in [RoundIds ->
          {[NewService(Zero, HttpConfig) EXCEPT !.assignedSlaves = prior] :
              prior \in {<<>>, <<1>>}}]
    /\ \E k \in 0..1 :
          /\ slaves = [i \in 1..k |-> [id |-> i, obj |-> i]]
          /\ heap \in [1..k -> [lastSeen : {Zero, LastActive}, services : RoundClaims]]
    /\ tasks = EmptyTasks
    /\ events = <<>>
    /\ probe = <<>>

NextRound ==
    \/ \E a \in Agents, c \in RoundClaims : HandleHeartbeat(a, c) /\ Within(MaxTasks)
    \/ \E tk \in DOMAIN tasks, ok \in BOOLEAN : DeleteSettled(tk, ok) /\ Within(MaxTasks)
    \/ \E tk \in DOMAIN tasks, ok \in BOOLEAN : NotifySettled(tk, ok) /\ Within(MaxTasks)

SpecRound == InitRound /\ [][NextRound]_vars

----------------------------------------------------------------------------
(* The agent table under watch: the fleet with a service that comes and     *)
(* goes, and for every agent a record of when its latest heartbeat was      *)
(* handled and of how many offline alerts were dispatched for it since      *)

\* offline alerts counted per agent
MaxAlerts == 2
\* no heartbeat handled yet
Never == Ms(-1)

Unwatched == [alerts |-> 0, heartbeat |-> Never]

InitWatch ==
    /\ now = Zero
    /\ services = [id \in {} |-> 0]
    /\ nextId = 0
    /\ slaves = <<>>
    /\ heap = [o \in {} |-> 0]
    /\ tasks = EmptyTasks
    /\ events = <<>>
    /\ probe = [a \in Agents |-> Unwatched]

\* the offline alerts for agent a among the events
OfflineAlerts(evs, a) ==
    Cardinality({i \in 1..Len(evs) : evs[i] = Event("offline", a, Zero)})

\* POST /heartbeat, noted
WatchedHeartbeat(slaveId, claimed) ==
    /\ Commit(HeartbeatEffect(slaveId, claimed))
    /\ probe' = [probe EXCEPT ![slaveId] = [alerts |-> 0, heartbeat |-> now]]
    /\ UNCHANGED <<now, nextId>>

\* the 30 s timer, its alerts counted
WatchedSweep ==
    /\ Commit(SweepLoop(Mem, 1, now))
    /\ probe' = [a \in Agents |->
                    [probe[a] EXCEPT !.alerts = @ + OfflineAlerts(events', a)]]
    /\ \A a \in Agents : probe'[a].alerts <= MaxAlerts
    /\ UNCHANGED <<now, nextId>>

NextWatch ==
    \/ \E t \in Instants : Tick(t)
    \/ nextId < MaxServices /\ AddService(HttpConfig) /\ Within(MaxTasks)
    \/ \E id \in ServiceIds : RemoveService(id)
    \/ \E a \in Agents, c \in ClaimLists : WatchedHeartbeat(a, c) /\ Within(MaxTasks)
    \/ WatchedSweep /\ Within(MaxTasks)
    \/ \E tk \in DOMAIN tasks, ok \in BOOLEAN : DeleteSettled(tk, ok) /\ Within(MaxTasks)
    \/ \E tk \in DOMAIN tasks, ok \in BOOLEAN : NotifySettled(tk, ok) /\ Within(MaxTasks)

SpecWatch == InitWatch /\ [][NextWatch]_vars

----------------------------------------------------------------------------
(* The sweeper under watch: the fleet on both sides of the 60 s threshold,  *)
(* with a record of when the 30 s timer fired last and of whether that run  *)
(* of checkSlaveHealth called saveState()                                   *)

\* an agent seen at 0 is 60 s silent at 60000 and more than that at 60001
SweepInstants ==
    {Ms(0), Ms(ACTIVE_WINDOW_MS), Ms(ACTIVE_WINDOW_MS + 1), Ms(EVICT_AFTER_MS + 1)}

\* unhealthySlaves after the loop of checkSlaveHealth over table sl
unhealthySlaves(sl, h, t) ==
    Cardinality({i \in 1..Len(sl) : IsUnhealthy(h[sl[i].obj].lastSeen, t)})

InitSweep ==
    /\ now = Zero
    /\ services = [id \in {} |-> 0]
    /\ nextId = 0
    /\ slaves = <<>>
    /\ heap = [o \in {} |-> 0]
    /\ tasks = EmptyTasks
    /\ events = <<>>
    /\ probe = [at |-> Never, saved |-> FALSE]

\* the 30 s timer, its save noted
NotedSweep ==
    /\ Commit(SweepLoop(Mem, 1, now))
    /\ probe' = [at |-> now, saved |-> unhealthySlaves(slaves, heap, now) > 0]
    /\ UNCHANGED <<now, nextId>>

NextSweep ==
    \/ \E t \in SweepInstants : Tick(t)
    \/ nextId < MaxServices /\ AddService(HttpConfig) /\ Within(MaxTasks)
    \/ \E a \in Agents, c \in ClaimLists : HandleHeartbeat(a, c) /\ Within(MaxTasks)
    \/ NotedSweep /\ Within(MaxTasks)
    \/ \E tk \in DOMAIN tasks, ok \in BOOLEAN : DeleteSettled(tk, ok) /\ Within(MaxTasks)
    \/ \E tk \in DOMAIN tasks, ok \in BOOLEAN : NotifySettled(tk, ok) /\ Within(MaxTasks)

SpecSweep == InitSweep /\ [][NextSweep]_vars

----------------------------------------------------------------------------
(* Overlapping redistributions: the fleet with its sweeper, where a second  *)
(* distributeService may start while the first awaits an agent's answer     *)

MaxOverlap == 2
\* an agent seen at 0 is stale, and not yet evictable, at 60001
OverlapInstants == {Ms(0), Ms(ACTIVE_WINDOW_MS + 1)}

NextOverlap ==
    \/ \E t \in OverlapInstants : Tick(t)
    \/ nextId < MaxServices /\ AddService(HttpConfig) /\ Within(MaxOverlap)
    \/ \E a \in Agents, c \in ClaimLists : HandleHeartbeat(a, c) /\ Within(MaxOverlap)
    \/ CheckSlaveHealth /\ Within(MaxOverlap)
    \/ \E tk \in DOMAIN tasks, ok \in BOOLEAN : DeleteSettled(tk, ok) /\ Within(MaxOverlap)
    \/ \E tk \in DOMAIN tasks, ok \in BOOLEAN : NotifySettled(tk, ok) /\ Within(MaxOverlap)

SpecOverlap == Init /\ [][NextOverlap]_vars

----------------------------------------------------------------------------
(* A full assignment: the table holds more agents than a service needs, all *)
(* active; the service is assigned to the first three, which claim it, and  *)
(* the agents heartbeat, claiming the service or not                        *)

Fleet == 1..DistAgents
FirstAssigned == [i \in 1..TARGET_REPLICAS |-> i]

InitFull ==
    /\ now = CallTime
    /\ nextId = Subject
    /\ services = [id \in {Subject} |->
                      [NewService(Zero, HttpConfig) EXCEPT !.assignedSlaves = FirstAssigned]]
    /\ slaves = [i \in Fleet |-> [id |-> i, obj |-> i]]
    /\ heap = [i \in Fleet |->
                  [lastSeen |-> LastActive,
                   services |-> IF i <= TARGET_REPLICAS THEN <<Subject>> ELSE <<>>]]
    /\ tasks = EmptyTasks
    /\ events = <<>>
    /\ probe = <<>>

NextFull ==
    \/ \E a \in Fleet, c \in {<<>>, <<Subject>>} : HandleHeartbeat(a, c) /\ Within(MaxTasks)
    \/ \E tk \in DOMAIN tasks, ok \in BOOLEAN : DeleteSettled(tk, ok) /\ Within(MaxTasks)
    \/ \E tk \in DOMAIN tasks, ok \in BOOLEAN : NotifySettled(tk, ok) /\ Within(MaxTasks)

SpecFull == InitFull /\ [][NextFull]_vars

----------------------------------------------------------------------------
(* The start of the master: the constructor calls loadState() without       *)
(* awaiting it and starts the server, so the load is a suspended operation  *)
(* while the first requests are handled.  What this.storage.loadState()     *)
(* gives is one of: nothing stored, a stored state without services, a      *)
(* stored state with a service of an earlier run, a failure                 *)

\* loadState() awaiting this.storage.loadState()
LoadTask ==
    [kind |-> "load", phase |-> "read", svc |-> 0, assigned |-> <<>>,
     idx |-> 0, cap |-> 0, capId |-> 0, cont |-> NoCont]

LoadOutcomes == {"absent", "empty", "stored", "failed"}
\* the id of the service of the earlier run, which no addService hands out
StoredId == MaxServices + 1
\* state.services of a stored state
StoredServices(outcome) ==
    IF outcome = "stored"
    THEN [id \in {StoredId} |-> NewService(Zero, HttpConfig)]
    ELSE [id \in {} |-> 0]

InitStartup ==
    /\ now = Zero
    /\ services = [id \in {} |-> 0]
    /\ nextId = 0
    /\ slaves = <<>>
    /\ heap = [o \in {} |-> 0]
    /\ tasks = AddTask(EmptyTasks, LoadTask)
    /\ events = <<>>
    /\ probe = <<>>

\* loadState() after its await: the stored tables replace this.services and
\* this.slaves, empty ones do when the load failed, and nothing happens when
\* nothing was stored
LoadSettled(outcome) ==
    /\ LoadTask \in DOMAIN tasks
    /\ LET m0 == [Mem EXCEPT !.tasks = RemoveTask(@, LoadTask)]
           m1 == IF outcome = "absent" THEN m0
                 ELSE [m0 EXCEPT !.services = StoredServices(outcome),
                                 !.slaves = <<>>]
       IN  Commit(m1)
    /\ UNCHANGED <<now, nextId, probe>>

NextStartup ==
    \/ \E outcome \in LoadOutcomes : LoadSettled(outcome)
    \/ \E t \in OverlapInstants : Tick(t)
    \/ nextId < MaxServices /\ AddService(HttpConfig) /\ Within(MaxTasks)
    \/ \E id \in ServiceIds : RemoveService(id)
    \/ \E a \in Agents, c \in ClaimLists : HandleHeartbeat(a, c) /\ Within(MaxTasks)
    \/ CheckSlaveHealth /\ Within(MaxTasks)
    \/ \E tk \in DOMAIN tasks, ok \in BOOLEAN : DeleteSettled(tk, ok) /\ Within(MaxTasks)
    \/ \E tk \in DOMAIN tasks, ok \in BOOLEAN : NotifySettled(tk, ok) /\ Within(MaxTasks)
    \/ \E id \in ServiceIds, o \in {Success, Failure} :
          HandleReport(Reporter, id, now, o.success, o.error)

SpecStartup == InitStartup /\ [][NextStartup]_vars

----------------------------------------------------------------------------
(* The alerts of a service in the order they were sent: for every service   *)
(* the kind of the last alert about it, and whether a recovery that was     *)
(* too short to be recorded closed its incident since that alert            *)

\* the last alert was a down alert: the first since a recovery alert, or not
DownKinds == {"down", "downAgain"}

HasAlert(evs, type, id) ==
    \E k \in 1..Len(evs) : evs[k].type = type /\ evs[k].subject = id

\* the recovery branch of handleStatusChange taken without its alert
SuppressedRecovery(before, after, t) ==
    /\ before.lastStatus = "DOWN"
    /\ after.lastStatus = "UP"
    /\ before.currentIncident # NoIncident
    /\ ~RecordsDowntime(TSub(t, before.currentIncident.start))

InitAlerts ==
    /\ now = Zero
    /\ services = [id \in {} |-> 0]
    /\ nextId = 0
    /\ slaves = <<>>
    /\ heap = [o \in {} |-> 0]
    /\ tasks = EmptyTasks
    /\ events = <<>>
    /\ probe = [id \in ServiceIds |-> [last |-> "none", suppressed |-> FALSE]]

\* handleReport, its alert noted
NotedReport(slaveId, serviceId, timestamp, success, error) ==
    /\ Present(services, serviceId)
    /\ LET r == ReportEffect(serviceId, services[serviceId], slaveId,
                             timestamp, success, error, now)
       IN  /\ services' = [services EXCEPT ![serviceId] = r.svc]
           /\ events' = r.events
           /\ probe' = [probe EXCEPT ![serviceId] =
                  IF HasAlert(r.events, "down", serviceId)
                  THEN [last |-> IF @.last \in DownKinds THEN "downAgain" ELSE "down",
                        suppressed |-> FALSE]
                  ELSE IF HasAlert(r.events, "up", serviceId)
                  THEN [last |-> "up", suppressed |-> FALSE]
                  ELSE IF SuppressedRecovery(services[serviceId], r.svc, now)
                  THEN [@ EXCEPT !.suppressed = TRUE]
                  ELSE @]
    /\ UNCHANGED <<now, nextId, slaves, heap, tasks>>

NextAlerts ==
    \/ \E t \in ReportInstants : Tick(t)
    \/ nextId < MaxServices /\ AddService(IcmpConfig)
    \/ \E id \in ServiceIds : RemoveService(id)
    \/ \E a \in Reporters, id \in ServiceIds, ts \in {now, Zero},
          o \in {Success, Failure} :
          NotedReport(a, id, ts, o.success, o.error)

SpecAlerts == InitAlerts /\ [][NextAlerts]_vars

----------------------------------------------------------------------------
(* Two services side by side: either is reported on and edited while the    *)
(* agents heartbeat, the timer sweeps, the distributions settle and the     *)
(* observations age                                                         *)

InitFrame ==
    /\ now = Zero
    /\ services = [id \in RoundIds |-> NewService(Zero, HttpConfig)]
    /\ nextId = RoundServices
    /\ slaves = <<>>
    /\ heap = [o \in {} |-> 0]
    /\ tasks = EmptyTasks
    /\ events = <<>>
    /\ probe = <<>>

\* the start, and the time when an observation of the start has aged out and
\* an agent last seen at the start is evicted
FrameInstants == {Ms(0), Ms(EVICT_AFTER_MS + 1)}

NextFrame ==
    \/ \E t \in FrameInstants : Tick(t)
    \/ EditService(Subject, NameUpdate) /\ Within(MaxTasks)
    \/ \E tk \in DOMAIN tasks : EditResume(tk) /\ Within(MaxTasks)
    \/ \E tk \in DOMAIN tasks, ok \in BOOLEAN : DeleteSettled(tk, ok) /\ Within(MaxTasks)
    \/ \E tk \in DOMAIN tasks, ok \in BOOLEAN : NotifySettled(tk, ok) /\ Within(MaxTasks)
    \/ \E a \in Agents, c \in ClaimLists : HandleHeartbeat(a, c) /\ Within(MaxTasks)
    \/ CheckSlaveHealth /\ Within(MaxTasks)
    \/ \E id \in RoundIds, o \in {Success, Failure} :
          HandleReport(Reporter, id, now, o.success, o.error)

SpecFrame == InitFrame /\ [][NextFrame]_vars

----------------------------------------------------------------------------
(* The spread of the services: three or four agents are registered and      *)
(* active, claim nothing, and heartbeat with the services the master        *)
(* assigned to them, while services are added one after the other           *)

BalanceServices == 4

\* the services assigned to an agent, as its heartbeat lists them
Echo(a) ==
    CHOOSE c \in Ascending(BalanceServices) :
        \A id \in 1..BalanceServices :
            InSeq(id, c) <=> (Present(services, id)
                              /\ InSeq(a, services[id].assignedSlaves))

InitBalance ==
    /\ now = CallTime
    /\ services = [id \in {} |-> 0]
    /\ nextId = 0
    /\ \E n \in TARGET_REPLICAS..DistAgents :
          /\ slaves = [i \in 1..n |-> [id |-> i, obj |-> i]]
          /\ heap = [i \in 1..n |-> [lastSeen |-> LastActive, services |-> <<>>]]
    /\ tasks = EmptyTasks
    /\ events = <<>>
    /\ probe = <<>>

NextBalance ==
    \/ nextId < BalanceServices /\ AddService(HttpConfig) /\ Within(MaxOverlap)
    \/ \E a \in Fleet : HasSlave(slaves, a) /\ HandleHeartbeat(a, Echo(a))
                             /\ Within(MaxOverlap)
    \/ \E tk \in DOMAIN tasks, ok \in BOOLEAN : NotifySettled(tk, ok) /\ Within(MaxOverlap)

SpecBalance == InitBalance /\ [][NextBalance]_vars

----------------------------------------------------------------------------
(* An agent that goes silent: agent 1 sends its heartbeats before the clock *)
(* first advances and none after, the other agents heartbeat when they      *)
(* like.  Time passes, the 30 s timer keeps firing and every request sent   *)
(* to an agent is answered in the end.  The parity of the number of sweeps  *)
(* is recorded                                                              *)

Quitter == 1

InitGone ==
    /\ now = Zero
    /\ services = [id \in {} |-> 0]
    /\ nextId = 0
    /\ slaves = <<>>
    /\ heap = [o \in {} |-> 0]
    /\ tasks = EmptyTasks
    /\ events = <<>>
    /\ probe = 0

\* the 30 s timer, counted
CountedSweep ==
    /\ Commit(SweepLoop(Mem, 1, now))
    /\ probe' = 1 - probe
    /\ UNCHANGED <<now, nextId>>

Advance == \E t \in Instants : Tick(t)
Swept == CountedSweep /\ Within(MaxTasks)
\* the heartbeats of the agent that goes silent
LastBeats ==
    \E c \in ClaimLists : now = Zero /\ HandleHeartbeat(Quitter, c) /\ Within(MaxTasks)
OtherBeats ==
    \E a \in Agents \ {Quitter}, c \in ClaimLists :
        HandleHeartbeat(a, c) /\ Within(MaxTasks)

NextGone ==
    \/ Advance
    \/ nextId < MaxServices /\ AddService(HttpConfig) /\ Within(MaxTasks)
    \/ LastBeats
    \/ OtherBeats
    \/ Swept
    \/ Settle

SpecGone ==
    /\ InitGone /\ [][NextGone]_vars
    /\ WF_vars(Advance)
    /\ WF_vars(Swept)
    /\ WF_vars(Settle)

----------------------------------------------------------------------------
(* Properties *)

ServicesPresent == {id \in DOMAIN services : services[id].present}
IsOpen(svc) == svc.currentIncident # NoIncident
HasEvent(evs, type) == \E i \in 1..Len(evs) : evs[i].type = type

\* C1: in every reachable state of the whole master, a service's status is
\* DOWN exactly when it has an open incident
StatusMatchesIncident ==
    \A id \in ServicesPresent :
        (services[id].lastStatus = "DOWN") <=> IsOpen(services[id])

\* a service is DOWN with its incident open while an agent is assigned to it
DownWithIncident ==
    \E id \in ServicesPresent :
        /\ services[id].lastStatus = "DOWN"
        /\ IsOpen(services[id])
        /\ services[id].assignedSlaves # <<>>

\* the observations of a service counted by their age alone
FreshBy(svc, t, who) ==
    {a \in who \cap DOMAIN svc.slaveResults :
        ~TLe(Ms(300000), TSub(t, svc.slaveResults[a].timestamp))}
Successes(svc, who) == {a \in who : svc.slaveResults[a].success}

\* C2: with N >= 1 fresh observations of which k succeed, consensus is UP
\* exactly when k / N >= 0.75, that is 4k >= 3N
ConsensusIsThreeQuarters ==
    \A id \in ServicesPresent :
        LET fresh == FreshBy(services[id], now, Observers)
            N == Cardinality(fresh)
            k == Cardinality(Successes(services[id], fresh))
        IN  N >= 1 =>
              (calculateServiceStatus(services[id], now) = "UP" <=> 4 * k >= 3 * N)

\* four fresh observations, three of them successes, and the service is UP
ThreeOfFourIsUp ==
    \E id \in ServicesPresent :
        LET fresh == FreshBy(services[id], now, Observers) IN
        /\ Cardinality(fresh) = 4
        /\ Cardinality(Successes(services[id], fresh)) = 3
        /\ services[id].lastCheck = now
        /\ services[id].lastStatus = "UP"

\* a step that handles a fresh failure report of agent a for service id
FailureReported(a, id) ==
    /\ Present(services, id)
    /\ \E o \in {Failure, SilentFailure} : HandleReport(a, id, now, o.success, o.error)

StaysUp(id) ==
    /\ services'[id].lastStatus = "UP"
    /\ ~IsOpen(services'[id])
    /\ ~HasEvent(events', "down")

Reported(id) ==
    /\ Present(services, id)
    /\ \E a \in Reporters, ts \in {now, Zero}, o \in {Success, Failure, SilentFailure} :
          HandleReport(a, id, ts, o.success, o.error)

\* the verdict over the observations that are less than 5 minutes old
VerdictOf(svc, t, who) ==
    LET fresh == FreshBy(svc, t, who)
    IN  IF 4 * Cardinality(Successes(svc, fresh)) >= 3 * Cardinality(fresh)
        THEN "UP" ELSE "DOWN"

\* C4: an observation 5 minutes old or more counts neither in the numerator
\* nor in the denominator of the consensus, and a report after which every
\* observation is that old changes neither the status nor the incident
StaleObservationsIgnored ==
    [][\A id \in ServiceIds :
          Reported(id) =>
            IF FreshBy(services'[id], now, Reporters) = {}
            THEN /\ services'[id].lastStatus = services[id].lastStatus
                 /\ services'[id].currentIncident = services[id].currentIncident
            ELSE services'[id].lastStatus = VerdictOf(services'[id], now, Reporters)]_vars

\* a report was just handled for a service that is DOWN, all of whose
\* observations are stale, one of them exactly 5 minutes old
AllStaleKeepsDown ==
    \E id \in ServicesPresent :
        /\ services[id].lastCheck = now
        /\ DOMAIN services[id].slaveResults # {}
        /\ FreshBy(services[id], now, Reporters) = {}
        /\ \E a \in DOMAIN services[id].slaveResults :
              TSub(now, services[id].slaveResults[a].timestamp) = Ms(300000)
        /\ services[id].lastStatus = "DOWN"
        /\ IsOpen(services[id])

\* the incidents the ledger of a service lists
Recorded(svc) ==
    UNION {{svc.downtimeLog[i].incidents[j] : j \in 1..Len(svc.downtimeLog[i].incidents)} :
             i \in 1..Len(svc.downtimeLog)}

\* C5: a recovery after less than 10000 ms leaves the ledger and both
\* percentages alone and sends no recovery alert, yet clears the incident and
\* sets the status UP; after 10000 ms or more the incident is in the ledger
\* and a recovery alert is sent
MinimumDowntime ==
    [][\A id \in ServiceIds :
          (/\ Reported(id)
           /\ services[id].lastStatus = "DOWN"
           /\ services'[id].lastStatus = "UP")
          => LET d == TSub(now, services[id].currentIncident.start) IN
             /\ ~IsOpen(services'[id])
             /\ IF TLt(d, Ms(10000))
                THEN /\ services'[id].downtimeLog = services[id].downtimeLog
                     /\ services'[id].uptimePercentage = services[id].uptimePercentage
                     /\ services'[id].uptimePercentage30d = services[id].uptimePercentage30d
                     /\ ~HasEvent(events', "up")
                ELSE /\ \E inc \in Recorded(services'[id]) \ Recorded(services[id]) :
                          /\ inc.start = services[id].currentIncident.start
                          /\ inc.end = now
                     /\ events' = <<Event("up", id, d)>>]_vars

\* an incident of exactly 10000 ms was just recorded and its recovery alerted
TenSecondsRecorded ==
    \E id \in ServicesPresent :
        /\ \E inc \in Recorded(services[id]) :
              inc.end = now /\ TSub(inc.end, inc.start) = Ms(10000)
        /\ events = <<Event("up", id, Ms(10000))>>
        /\ services[id].lastStatus = "UP"

\* service id is assigned to an agent that is in the table and active
Covered(id) ==
    /\ Present(services, id)
    /\ \E a \in Agents :
          /\ InSeq(a, services[id].assignedSlaves)
          /\ HasSlave(slaves, a)
          /\ IsActive(heap[SlaveObj(slaves, a)].lastSeen, now)

\* C6: while some agent keeps sending heartbeats and the sweeper keeps
\* running, every service that exists is eventually assigned to an active agent
EveryServiceGetsCovered ==
    \A id \in ServiceIds : Present(services, id) ~> Covered(id)

\* the last handler logged that no slave was active to monitor service id
WarnedNoActive(id) ==
    \E i \in 1..Len(events) : events[i] = Event("noActiveSlaves", id, Zero)

\* C7: when distributeService has run for a service while no agent was
\* active, the assignment of the service is empty
NoActiveLeavesEmpty ==
    \A id \in ServicesPresent :
        WarnedNoActive(id) => services[id].assignedSlaves = <<>>

\* the last handler was a sweep that saw agent b more than 60 s silent
SweepSawDown(b) ==
    \E i \in 1..Len(events) : events[i] = Event("appearsDown", b, Zero)

\* C8: once a sweep that saw agent b more than 60 s silent is over, the
\* redistributions it started included, no assignment contains b
SweptAgentsUnassigned ==
    \A b \in Agents :
        (SweepSawDown(b) /\ tasks = EmptyTasks)
        => \A id \in ServicesPresent : ~InSeq(b, services[id].assignedSlaves)

\* the elements of a sequence
SetOf(seq) == {seq[i] : i \in 1..Len(seq)}

\* what the latest call of distributeService found
LastCall == probe[Len(probe)]
ActiveIds ==
    {slaves[i].id : i \in {j \in 1..Len(slaves) :
                              IsActive(heap[slaves[j].obj].lastSeen, now)}}
PriorCount(a) == Len(LastCall.claimed[SlaveIndex(slaves, a)])
Kept == SelectSeq(LastCall.assigned, LAMBDA a : a \in ActiveIds)

\* a is, among the active agents not yet taken, the first in table order of
\* those that claimed the fewest services
FirstOfFewest(a, taken) ==
    /\ a \in ActiveIds \ taken
    /\ \A b \in ActiveIds \ (taken \cup {a}) :
          \/ PriorCount(a) < PriorCount(b)
          \/ (PriorCount(a) = PriorCount(b)
              /\ SlaveIndex(slaves, a) < SlaveIndex(slaves, b))

\* C9: with n >= 1 active agents distributeService leaves exactly min(3, n)
\* distinct assigned agents, all active: those it kept, then the agents it
\* added, each the first in table order of the active unassigned agents with
\* the fewest claimed services
DistributesToFewest ==
    (probe # <<>> /\ ActiveIds # {}) =>
        LET after == services[Subject].assignedSlaves IN
        /\ Len(after) = Min2(3, Cardinality(ActiveIds))
        /\ Cardinality(SetOf(after)) = Len(after)
        /\ SetOf(after) \subseteq ActiveIds
        /\ Len(Kept) <= Len(after)
        /\ SubSeq(after, 1, Len(Kept)) = Kept
        /\ \A j \in (Len(Kept) + 1)..Len(after) :
              FirstOfFewest(after[j], {after[i] : i \in 1..(j - 1)})

\* four active agents, the first of which alone claims a service, and a
\* service assigned to nobody: it went to the other three
ThreeOfFourChosen ==
    /\ Len(probe) = 1
    /\ Cardinality(ActiveIds) = 4
    /\ LastCall.assigned = <<>>
    /\ LastCall.claimed = <<<<Other>>, <<>>, <<>>, <<>>>>
    /\ services[Subject].assignedSlaves = <<2, 3, 4>>

\* the sets a snapshot holds
Sets(snap) ==
    [assigned |-> SetOf(snap.assigned),
     claimed |-> [i \in DOMAIN snap.claimed |-> SetOf(snap.claimed[i])]]

\* C10: a second call of distributeService that follows the first with
\* nothing in between leaves the assignment set and every agent's claimed set
\* as the first call left them
SecondCallChangesNothing ==
    (Len(probe) = 2 /\ tasks = EmptyTasks) => Sets(Snapshot) = Sets(probe[2])

\* C11: for an agent that sends no further heartbeat, at most one offline
\* alert is dispatched: however sweeps interleave with the redistributions in
\* flight, no agent has more than one offline alert since its latest heartbeat
AlertedOfflineOnce ==
    \A a \in Agents : probe[a].alerts <= 1

\* the record of agent a in the table
Record(a) == heap[SlaveObj(slaves, a)]

\* C12: while an agent is in the table the lastSeen of its record never
\* decreases, whichever operation takes the step
LastSeenNeverDecreases ==
    [][\A a \in Agents :
          (HasSlave(slaves, a) /\ HasSlave(slaves', a))
          => TLe(Record(a).lastSeen, heap'[SlaveObj(slaves', a)].lastSeen)]_vars

\* an operation on service id has started and is suspended on an await
InProgress(id) == \E tk \in DOMAIN tasks : tk.svc = id

\* a step in which removeService, editService or handleReport starts to work
\* on service id, which exists
BeginsMutation(id) ==
    /\ Present(services, id)
    /\ \/ RemoveService(id)
       \/ \E u \in {NameUpdate} : EditService(id, u)
       \/ \E o \in {Success, Failure} : HandleReport(Reporter, id, now, o.success, o.error)

\* C13: while an operation on a service is suspended between its start and
\* its completion, no removeService, editService or handleReport for that
\* service begins
OneMutationAtATime ==
    [][\A id \in ServiceIds : InProgress(id) => ~BeginsMutation(id)]_vars

\* a handleHeartbeat or an editService is suspended on an await
Awaiting ==
    \E tk \in DOMAIN tasks : tk.kind = "edit" \/ tk.cont.k \in {"hb", "edit"}

\* C14: while heartbeats keep being handled, every handleHeartbeat and
\* editService that is suspended on an await completes in the end, whether or
\* not the agents answer the requests sent to them
EveryInvocationCompletes ==
    ([]<><<Beat>>_vars) => (Awaiting ~> ~Awaiting)

\* the calendar day of the clock
Today == getDateString(now)

\* C15: no ledger holds an entry dated 31 days before the current date
NoEntryPastRetention ==
    \A id \in ServicesPresent :
        \A i \in 1..Len(services[id].downtimeLog) :
            services[id].downtimeLog[i].date # Today - (DAYS_TO_KEEP + 1)

\* the agents of the table whose claimed list holds service id
ClaimersOf(sl, h, id) ==
    {sl[i].id : i \in {j \in 1..Len(sl) : InSeq(id, h[sl[j].obj].services)}}

\* C16: when removeService(id) has run for a service that exists, the
\* service is out of the table and no agent of the table claims id
RemovalUnclaimsEverywhere ==
    [][\A id \in ServiceIds :
          (Present(services, id) /\ RemoveService(id))
          => (~Present(services', id) /\ ClaimersOf(slaves', heap', id) = {})]_vars

\* C17: an agent leaves the table only in a sweep, which alerts that it is
\* offline, and only when its latest heartbeat was handled more than 300 s
\* before
EvictedOnlyAfterSilence ==
    [][\A a \in Agents :
          (HasSlave(slaves, a) /\ ~HasSlave(slaves', a))
          => /\ OfflineAlerts(events', a) = 1
             /\ TLt(Ms(300000), TSub(now, probe[a].heartbeat))]_vars

\* a step in which removeService, editService or handleReport is called
\* with service id
Targets(id) ==
    \/ RemoveService(id)
    \/ \E u \in {NameUpdate, HostUpdate, MixedUpdate} : EditService(id, u)
    \/ \E o \in {Success, Failure} : HandleReport(Reporter, id, now, o.success, o.error)

\* C18: removeService, editService and handleReport called with an id that
\* is not in the service table throw a not-found error and leave the service
\* table, the agent table and the suspended operations as they were
UnknownIdRejected ==
    [][\A id \in ServiceIds :
          (~Present(services, id) /\ Targets(id))
          => /\ events' = <<Event("NotFound", id, Zero)>>
             /\ UNCHANGED <<services, slaves, heap, tasks>>]_vars

\* a call with the id of a removed service was just rejected while agents
\* are in the table
RemovedIdRejected ==
    /\ nextId = 1
    /\ ~Present(services, 1)
    /\ events = <<Event("NotFound", 1, Zero)>>
    /\ slaves # <<>>

\* a step in which editService is called on service id, which exists, with
\* an update that has a field the kind of the service does not have
ConflictingEdit(id) ==
    /\ Present(services, id)
    /\ \E u \in Updates : Incompatible(services[id], u) /\ EditService(id, u)

\* C19: an editService whose update has host for an http service, or url
\* for an icmp service, throws a validation error and changes no field of the
\* service, whatever other fields the update carries
ConflictingEditRejected ==
    [][\A id \in ServiceIds :
          ConflictingEdit(id)
          => /\ events' = <<Event("Validation", id, Zero)>>
             /\ services'[id] = services[id]
             /\ UNCHANGED <<slaves, heap, tasks>>]_vars

\* an edit was just rejected for a service of the original name that is
\* assigned to an agent
AssignedServiceKeptAsIs ==
    \E id \in ServicesPresent :
        /\ events = <<Event("Validation", id, Zero)>>
        /\ services[id].name = 1
        /\ services[id].assignedSlaves # <<>>

\* the distributeService that task tk stands for is still in progress
StillRunning(tk) ==
    \E n \in DOMAIN tasks' :
        n.kind = "dist" /\ n.svc = tk.svc /\ n.assigned = tk.assigned /\ n.cont.k = tk.cont.k

\* the heartbeat loop that awaited task tk is at the next service that has
\* no agent assigned, if there is one and an agent is active
GoesOn(tk) ==
    \A id \in RoundIds :
        (/\ tk.cont.k = "hb"
         /\ id = NextService(Mem, tk.cont.last)
         /\ services[id].assignedSlaves = <<>>
         /\ ActiveSlaves(Mem, now) # <<>>)
        => \E n \in DOMAIN tasks' : n.svc = id /\ n.cont.k = "hb" /\ n.cont.slave = tk.cont.slave

\* all that the step changes in the service table is the assignment of the
\* services after service id
OthersAside(id) ==
    \A other \in RoundIds :
        services'[other] = services[other]
        \/ (other > id /\ services'[other] =
                [services[other] EXCEPT !.assignedSlaves = services'[other].assignedSlaves])

\* C20: a failed request to an agent or a failed save does not unwind the
\* operation and undoes nothing.  After a failed DELETE the distributeService
\* is still running, the service table is as it was and so is every claimed
\* list; when its POSTs or its save failed the service keeps the assignment
\* that was written and the heartbeat that awaited it goes on to the next
\* service
FailureDoesNotUnwind ==
    [][\A tk \in DOMAIN tasks :
          /\ DeleteSettled(tk, FALSE)
             => /\ StillRunning(tk)
                /\ services' = services
                /\ ClaimersOf(slaves', heap', tk.svc) = ClaimersOf(slaves, heap, tk.svc)
          /\ NotifySettled(tk, FALSE)
             => /\ OthersAside(tk.svc)
                /\ GoesOn(tk)]_vars

\* the heartbeat of agent 2 is at service 2 after the DELETE of service 1
\* sent to agent 1 failed: agent 1 still claims service 1, which is assigned
\* to agent 2 alone
WentOnAfterFailure ==
    /\ \E n \in DOMAIN tasks : n.svc = 2 /\ n.cont.k = "hb" /\ n.cont.slave = 2
    /\ services[1].assignedSlaves = <<2>>
    /\ 1 \in ClaimersOf(slaves, heap, 1)

\* a sweep over a table in which no agent's heartbeat is more than 60 s old
QuietSweep ==
    /\ \A i \in 1..Len(slaves) :
          TLe(TSub(now, heap[slaves[i].obj].lastSeen), Ms(60000))
    /\ NotedSweep

\* C21: a sweep in which no agent's heartbeat is more than 60 s old does not
\* save the state and changes nothing: the agent table, the assignments, the
\* claimed lists and the suspended operations are as before and no alert or
\* warning goes out
QuietSweepChangesNothing ==
    [][QuietSweep
       => /\ ~probe'.saved
          /\ UNCHANGED <<services, slaves, heap, tasks>>
          /\ events' = <<>>]_vars

\* the timer fired at 60000 over a table with an agent last seen at 0 that
\* is assigned a service it claims, and nothing was saved
QuietAtSixtySeconds ==
    /\ probe = [at |-> Ms(60000), saved |-> FALSE]
    /\ now = Ms(60000)
    /\ events = <<>>
    /\ \E a \in Agents, id \in ServicesPresent :
          /\ HasSlave(slaves, a)
          /\ Record(a) = [lastSeen |-> Zero, services |-> <<id>>]
          /\ InSeq(a, services[id].assignedSlaves)

\* C22: in every reachable state the ledger of a service has at most one
\* entry for a calendar date and its entries are in strictly ascending order
\* of date
LedgerSortedUnique ==
    \A id \in ServicesPresent :
        LET log == services[id].downtimeLog IN
        \A i, j \in 1..Len(log) : i < j => log[i].date < log[j].date

\* a ledger of two days, the first of which saw two incidents
TwoDaysInLedger ==
    \E id \in ServicesPresent :
        LET log == services[id].downtimeLog IN
        /\ Len(log) = 2
        /\ Len(log[1].incidents) = 2
        /\ Len(log[2].incidents) = 1

\* C23: when a distributeService that found an active agent has returned,
\* no agent of the table outside the new assignment claims the service,
\* whether the DELETE sent to that agent succeeded or failed
DroppedAgentsUnclaimed ==
    (probe # <<>> /\ ActiveIds # {} /\ tasks = EmptyTasks)
    => ClaimersOf(slaves, heap, Subject) \subseteq SetOf(services[Subject].assignedSlaves)

\* C24: whenever no operation is suspended, every agent of the table that a
\* service's assignment lists has the service in its claimed list
AssignedAgentsClaim ==
    tasks = EmptyTasks =>
        \A id \in ServicesPresent, a \in Agents :
            (HasSlave(slaves, a) /\ InSeq(a, services[id].assignedSlaves))
            => InSeq(id, Record(a).services)

\* C25: when the heartbeat of an agent claims a service whose assignment
\* does not list the agent, then once the heartbeat is handled to its end the
\* agent has the service in its claimed list only if the assignment lists it
ClaimedOnlyIfAssigned ==
    [][\A a \in Fleet :
          (/\ ~InSeq(a, services[Subject].assignedSlaves)
           /\ HandleHeartbeat(a, <<Subject>>)
           /\ tasks' = EmptyTasks)
          => (a \in ClaimersOf(slaves', heap', Subject)
              => InSeq(a, services'[Subject].assignedSlaves))]_vars

\* C26: a report after which the consensus of the fresh observations is
\* DOWN, for a service that is UP, opens an incident that starts now, sets
\* the status DOWN and dispatches one down alert, all in that step; and no
\* step dispatches a down alert but one that takes a service from UP to DOWN
DownAlertOnTransitionOnly ==
    [][/\ \A id \in ServiceIds :
             (/\ Reported(id)
              /\ services[id].lastStatus = "UP"
              /\ FreshBy(services'[id], now, Reporters) # {}
              /\ VerdictOf(services'[id], now, Reporters) = "DOWN")
             => /\ services'[id].lastStatus = "DOWN"
                /\ services'[id].currentIncident.start = now
                /\ events' = <<Event("down", id, Zero)>>
       /\ HasEvent(events', "down")
             => \E id \in ServiceIds :
                   /\ Reported(id)
                   /\ services[id].lastStatus = "UP"
                   /\ services'[id].lastStatus = "DOWN"]_vars

\* a down alert was just dispatched, at 60001, for a service that was added
\* before and has an agent assigned
DownAlertedLater ==
    \E id \in ServicesPresent :
        /\ events = <<Event("down", id, Zero)>>
        /\ now = Ms(60001)
        /\ services[id].currentIncident.start = now
        /\ services[id].lastStatus = "DOWN"
        /\ TLt(services[id].createdAt, now)
        /\ services[id].assignedSlaves # <<>>

\* the entry of a ledger for a date, an empty one if it has none
EntryOf(log, date) ==
    IF \E i \in 1..Len(log) : log[i].date = date
    THEN log[CHOOSE i \in 1..Len(log) : log[i].date = date]
    ELSE [date |-> date, downtimeMs |-> Zero, incidents |-> <<>>]

SameVerdict(svc, held, t) ==
    FreshBy(svc, t, Reporters) = {} \/ VerdictOf(svc, t, Reporters) = held

\* C28: a report after which the consensus equals the stored status changes
\* the observation of the reporting agent and lastCheck and nothing else:
\* status, incident, ledger and both percentages are as before, and no alert
\* is dispatched
SameStatusReportIsQuiet ==
    [][\A id \in ServiceIds :
          (/\ Reported(id)
           /\ SameVerdict(services'[id], services[id].lastStatus, now))
          => /\ services'[id] = [services[id] EXCEPT
                                    !.slaveResults = services'[id].slaveResults,
                                    !.lastCheck = now]
             /\ \E a \in Reporters :
                   \A b \in DOMAIN services[id].slaveResults \ {a} :
                      /\ b \in DOMAIN services'[id].slaveResults
                      /\ services'[id].slaveResults[b] = services[id].slaveResults[b]
             /\ events' = <<>>
             /\ UNCHANGED <<slaves, heap, tasks>>]_vars

\* a report was just handled for a service that has been DOWN since an
\* earlier time and has the observations of two agents
StillDownAfterReport ==
    \E id \in ServicesPresent :
        /\ services[id].lastStatus = "DOWN"
        /\ TLt(services[id].currentIncident.start, now)
        /\ services[id].lastCheck = now
        /\ DOMAIN services[id].slaveResults = Reporters
        /\ events = <<>>

\* a step that handles a report of agent a for service id
ReportedBy(a, id) ==
    /\ Present(services, id)
    /\ \E ts \in {now, Zero}, o \in {Success, Failure, SilentFailure} :
          HandleReport(a, id, ts, o.success, o.error)

\* C29: the observations of a service hold one entry for an agent, that of
\* its most recent report: a report of agent a replaces the entry of a and
\* leaves the entries of the other agents as they were, and a report that
\* carries an older timestamp than the entry it finds does not leave the
\* older observation in its place
NewestObservationKept ==
    [][\A id \in ServiceIds, a \in Reporters :
          ReportedBy(a, id)
          => LET old == services[id].slaveResults
                 new == services'[id].slaveResults
             IN  /\ DOMAIN new = DOMAIN old \cup {a}
                 /\ \A b \in DOMAIN old \ {a} : new[b] = old[b]
                 /\ a \in DOMAIN old => TLe(old[a].timestamp, new[a].timestamp)]_vars

\* the downtime of the entries of a ledger whose day begins at or after an
\* instant
DowntimeSince(log, from) ==
    LET counted == {i \in 1..Len(log) : TLe(from, Days(log[i].date))}
        Sum[S \in SUBSET counted] ==
            IF S = {} THEN Zero
            ELSE LET i == CHOOSE x \in S : TRUE
                 IN  TAdd(log[i].downtimeMs, Sum[S \ {i}])
    IN  Sum[counted]

\* the downtime of all the entries of a ledger
DowntimeOfAll(log) == DowntimeSince(log, Days(-1))

\* C30: when an incident is recorded, the all-time percentage is
\* (age - downtime of all entries the ledger keeps) / age and the 30-day
\* percentage is (min(age, 30 d) - downtime of the entries dated within the
\* last 30 days) / min(age, 30 d), age being the time since the service was
\* created and the ledger being the pruned one
PercentagesFromPrunedLedger ==
    [][\A id \in ServiceIds :
          (/\ Reported(id)
           /\ services[id].lastStatus = "DOWN"
           /\ services'[id].lastStatus = "UP"
           /\ TLe(Ms(10000), TSub(now, services[id].currentIncident.start)))
          => LET log == services'[id].downtimeLog
                 age == TSub(now, services[id].createdAt)
                 window == IF TLe(age, Days(30)) THEN age ELSE Days(30)
             IN  /\ services'[id].uptimePercentage =
                        Pct(TSub(age, DowntimeOfAll(log)), age)
                 /\ services'[id].uptimePercentage30d =
                        Pct(TSub(window, DowntimeSince(log, TSub(now, Days(30)))), window)
                 /\ \A i \in 1..Len(log) : log[i].date >= Today - 30]_vars

\* an incident was just recorded in a ledger that keeps an entry dated 30
\* days back, which the 30-day percentage leaves out
RecordedBesideOldEntry ==
    \E id \in ServicesPresent :
        LET log == services[id].downtimeLog IN
        /\ Len(log) = 2
        /\ log[1].date = Today - 30
        /\ log[2].date = Today
        /\ log[2].incidents[Len(log[2].incidents)].end = now
        /\ services[id].uptimePercentage30d # services[id].uptimePercentage
        /\ events = <<Event("up", id, Ms(MIN_DOWNTIME_MS))>>

\* C31: the distributor and the sweeper draw the same lines: an agent is
\* active exactly when its heartbeat is less than 60 s old, a sweep takes it
\* for down and redistributes its services exactly when the heartbeat is 60 s
\* old or more, and evicts it exactly when the heartbeat is 300 s old or more
SameBoundariesEverywhere ==
    [][NotedSweep
       => \A i \in 1..Len(slaves) :
             LET a == slaves[i].id
                 age == TSub(now, heap[slaves[i].obj].lastSeen)
             IN  /\ InSeq(a, ActiveSlaves(Mem, now)) <=> TLt(age, Ms(60000))
                 /\ TLe(Ms(60000), age)
                       <=> \E k \in 1..Len(events') :
                              events'[k] = Event("appearsDown", a, Zero)
                 /\ TLe(Ms(300000), age)
                       <=> (OfflineAlerts(events', a) = 1 /\ ~HasSlave(slaves', a))]_vars

\* a percentage num / den * 100 that lies between 0 and 100
InRange(pct) == TLe(Zero, pct.num) /\ TLe(pct.num, pct.den)

\* C32: in every reachable state both uptime percentages of every service
\* lie between 0 and 100, also after an incident of more than 30 days was
\* closed and after the ledger was pruned
PercentagesInRange ==
    \A id \in ServicesPresent :
        /\ InRange(services[id].uptimePercentage)
        /\ InRange(services[id].uptimePercentage30d)

\* C33: an agent that is out of the table, evicted by a sweep, comes back
\* into it only in a step that handles a heartbeat of that agent: no
\* distributeService that held the agent's record re-inserts it
EvictedStaysOut ==
    [][\A a \in Agents :
          (~HasSlave(slaves, a) /\ HasSlave(slaves', a))
          => \E c \in ClaimLists : WatchedHeartbeat(a, c)]_vars

\* C34: a service that addService has put into the table stays in it, the
\* same service, in every step but a removeService of it: no heartbeat,
\* report, sweep, redistribution or completion of the startup load removes
\* or replaces it
ServiceStaysUntilRemoved ==
    [][\A id \in ServiceIds :
          (Present(services, id) /\ ~RemoveService(id))
          => (Present(services', id)
              /\ services'[id].createdAt = services[id].createdAt)]_vars

IncidentDurations(entry) ==
    [k \in 1..Len(entry.incidents) |->
        TSub(entry.incidents[k].end, entry.incidents[k].start)]

\* C35: in every entry of every service's ledger the downtimeMs is the sum
\* of end - start over the incidents the entry lists, and every listed
\* incident lasted 10000 ms or more
LedgerEntryAddsUp ==
    \A id \in ServicesPresent :
        \A i \in 1..Len(services[id].downtimeLog) :
            LET entry == services[id].downtimeLog[i] IN
            /\ entry.downtimeMs = SumSeq(IncidentDurations(entry))
            /\ \A k \in 1..Len(entry.incidents) :
                  TLe(Ms(MIN_DOWNTIME_MS), IncidentDurations(entry)[k])

\* an entry that lists two incidents
TwoIncidentsInOneEntry ==
    \E id \in ServicesPresent :
        \E i \in 1..Len(services[id].downtimeLog) :
            Len(services[id].downtimeLog[i].incidents) = 2

\* C36: a recovery alert about a service follows a down alert about it with
\* no other recovery alert in between, and a down alert that follows a down
\* alert with no recovery alert in between follows a recovery of less than
\* 10 s that was not alerted
AlertsAlternate ==
    [][\A a \in Reporters, id \in ServiceIds, ts \in {now, Zero},
         o \in {Success, Failure} :
          NotedReport(a, id, ts, o.success, o.error)
          => /\ HasAlert(events', "up", id) => probe[id].last \in DownKinds
             /\ (HasAlert(events', "down", id) /\ probe[id].last \in DownKinds)
                   => probe[id].suppressed]_vars

\* a down alert about a service whose last alert was a down alert
DownAlertedTwiceInARow ==
    \E id \in ServicesPresent :
        /\ probe[id].last = "downAgain"
        /\ HasAlert(events, "down", id)

\* what the reports on a service decide
Verdict(svc) ==
    <<svc.lastStatus, svc.currentIncident, svc.downtimeLog,
      svc.uptimePercentage, svc.uptimePercentage30d>>

\* C37: the status, the open incident, the ledger and the percentages of a
\* service change only in a handleReport about that service: not in a
\* heartbeat, a sweep, a distribution, an edit, a report about another
\* service or the passing of time
OnlyOwnReportsChangeVerdict ==
    [][\A id \in RoundIds :
          Verdict(services'[id]) # Verdict(services[id])
          => \E o \in {Success, Failure} :
                HandleReport(Reporter, id, now, o.success, o.error)]_vars

\* service 1 is down on an observation that has aged out, was edited and
\* assigned to an agent, and service 2 was reported up after all that
DownBesideReportedNeighbour ==
    /\ services[1].lastStatus = "DOWN"
    /\ services[1].name = NameUpdate["name"]
    /\ services[1].assignedSlaves # <<>>
    /\ ~IsFresh(services[1].slaveResults[Reporter].timestamp, now)
    /\ services[2].lastStatus = "UP"
    /\ services[2].lastCheck = now
    /\ slaves # <<>>

ClaimedBy(i) == Len(heap[slaves[i].obj].services)

\* C38: with three or more agents that stay active, started with nothing
\* claimed and heartbeating with what the master assigned to them, the
\* numbers of services two agents claim differ by 1 at most after any
\* sequence of addService calls
ClaimedBalanced ==
    \A i, j \in 1..Len(slaves) : ClaimedBy(i) - ClaimedBy(j) <= 1

\* four agents after the second addService: two claim both services, two
\* claim one, and an agent has heartbeated since
SecondServiceSpread ==
    /\ Len(slaves) = DistAgents
    /\ nextId = 2
    /\ \E i, j \in 1..Len(slaves) :
          /\ ClaimedBy(i) = 2 /\ ClaimedBy(j) = 1
          /\ heap[slaves[i].obj].lastSeen = now

\* the agent is in the table, or in the assignment of a service, or a
\* request to it is awaited
RefersTo(a) ==
    \/ HasSlave(slaves, a)
    \/ \E id \in ServicesPresent : InSeq(a, services[id].assignedSlaves)
    \/ \E tk \in DOMAIN tasks :
          /\ tk.kind = "dist"
          /\ \/ tk.phase = "notify" /\ InSeq(a, tk.assigned)
             \/ tk.phase = "delete" /\ tk.capId = a

\* C39: when an agent has stopped heartbeating for good and the sweeps keep
\* running, from some time on the agent is never in the table, in no
\* service's assignment and the target of no request
SilentAgentForgotten ==
    ([]<><<Swept>>_vars) => <>[]~RefersTo(Quitter)

====
